---- MODULE Spec2Model ----
(***************************************************************************)
(* Model of the LoRa Mesh TAK serial client (PythonLib/lora_mesh_tak).     *)
(*                                                                         *)
(*   SpecCodec   slip_encode / slip_decode applied to bounded byte strings *)
(*   SpecReader  one SlipReader object driven by feed / get_packet / clear *)
(*   Spec        LoRaMeshClient: callers in _send_command, the background  *)
(*               _read_loop thread, and the device at the end of the port  *)
(*   SpecAlloc   _next_packet_id started next to an id that is pending     *)
(*   SpecWrite   _send_packet: the lock, write() byte by byte, flush()     *)
(*   SpecLife    connect / disconnect step by step, one _read_loop thread  *)
(*               per connect, join(timeout) that can expire                *)
(*   SpecClose   SpecLife's lifecycle with one caller in _send_command;    *)
(*               SpecCloseFair adds that a caller keeps running            *)
(*   SpecDispatch  _handle_event against the five callback slots           *)
(*   SpecMessage send_message, _send_split_message, broadcast and the      *)
(*               query / action wrappers above _send_command               *)
(*   SpecMalformed  the reader thread fed payloads that are no packet      *)
(*   SpecWriteFault, SpecFault  SpecWrite and one connection of SpecLife   *)
(*               on a port whose calls can raise                           *)
(*   SpecLifeFair  SpecLife with threads that keep running                 *)
(*   SpecHandler one caller, events and handlers that return or raise      *)
(*   SpecStream  a SlipReader fed the frames of a list of payloads         *)
(*   SpecSplit   the part texts of _send_split_message on very long texts  *)
(*   SpecConnect SpecLife with a port that can fail to open                *)
(*                                                                         *)
(* Every specification owns a group of variables and leaves the others at  *)
(* their initial value.                                                    *)
(***************************************************************************)
EXTENDS Integers, Sequences, FiniteSets, TLC

VARIABLES
    \* ---- SpecCodec
    cin,        \* the byte string handed to the codec
    cstage,     \* "input" | "encoded" | "roundtrip" | "decoded"
    cenc,       \* slip_encode(cin) once computed
    cdec,       \* the outcome of the last slip_decode call
    parts,      \* SpecSplit: the length of the text _send_split_message is
                \* given, the part its loop has reached and the part text
    \* ---- SpecReader
    rd,         \* the SlipReader object: _buffer, _in_packet, _packets
    fed,        \* history: every byte fed since construction / clear()
    popped,     \* history: every packet get_packet() has returned since then
    rlast,      \* the last call on the reader and what it returned; split: some
                \* feed() call since clear() began inside a packet
    payloads,   \* SpecStream: the payloads whose frames the reader is fed
    \* ---- Spec (LoRaMeshClient; its _slip_reader is rd)
    serial,             \* _serial: "None" | "open"
    running,            \* _running
    packet_id,          \* _packet_id
    response_events,    \* _response_events: id -> the caller whose Event it is
    pending_responses,  \* _pending_responses: id -> envelope
    callbacks,          \* _on_message .. _on_log: event kind -> handler | "None"
    call,               \* per caller: where it is in _send_command, its locals
    rthread,            \* the _read_loop thread: where it is, the packet in hand
    tx,                 \* frames written to the port, in write order
    rx,                 \* frames the device has sent and read() has not returned
    nemit,              \* envelopes the device has sent
    history,            \* history: handler calls, who wrote, what was answered,
                        \* the branch _handle_packet took for each envelope
    \* ---- SpecWrite, SpecLife
    lock,               \* _lock: "free" | the caller that holds it
    wire,               \* the bytes the port has put on the wire, in order
    reader_thread,      \* _reader_thread: NoThread | a thread
    threads,            \* every _read_loop thread ever created: where it is,
                        \* the bytes or packet in hand, and (history) the
                        \* number of the port its bytes were read from and
                        \* the envelopes sent before its last failed read of
                        \* an open port, plus one
    ctl,                \* the thread that calls connect() / disconnect(): where
                        \* it is, ports opened so far, the call it made last,
                        \* the state its disconnect() found, the callers that
                        \* were waiting when a port was closed
    \* ---- SpecMessage, SpecFault
    api,                \* the public operation caller c1 is in: its arguments,
                        \* where it is, the chunks of _send_split_message and
                        \* (history) the commands handed to _send_command
    port                \* the serial device: "ok" | "failing" (read, write
                        \* and flush raise SerialException)

codecVars == <<cin, cstage, cenc, cdec, parts>>
readerVars == <<rd, fed, popped, rlast, payloads>>
readerHist == <<fed, popped, rlast, payloads>>
clientVars == <<serial, running, packet_id, response_events, pending_responses,
                callbacks, call, rthread, tx, rx, nemit, history,
                lock, wire, reader_thread, threads, ctl, api, port>>
apiVars == <<api, port>>
lifeVars == <<lock, wire, reader_thread, threads, ctl>>
vars == <<cin, cstage, cenc, cdec, parts, rd, fed, popped, rlast, payloads,
          serial, running, packet_id, response_events, pending_responses,
          callbacks, call, rthread, tx, rx, nemit, history,
          lock, wire, reader_thread, threads, ctl, api, port>>

(***************************************************************************)
(* slip.py: constants                                                      *)
(***************************************************************************)
SLIP_END == 192
SLIP_ESC == 219
SLIP_ESC_END == 220
SLIP_ESC_ESC == 221

\* Longest byte string handed to slip_encode / slip_decode.
MaxLen == 4
\* Most bytes fed to one SlipReader between two clear() calls.
MaxStream == 6
\* Longest chunk handed to one feed() call.
MaxChunk == 3

\* The byte values the model distinguishes: the four SLIP bytes and one
\* ordinary byte (0xDC and 0xDD are ordinary too when no 0xDB precedes).
Bytes == {1, SLIP_END, SLIP_ESC, SLIP_ESC_END, SLIP_ESC_ESC}

ByteSeqs(n) == UNION {[1..k -> Bytes] : k \in 0..n}

(***************************************************************************)
(* slip.py: slip_encode                                                    *)
(***************************************************************************)
\* A plausible slip: the escape byte itself is copied instead of escaped.
EncodeByteEscNotEscaped(result, byte) ==
    IF byte = SLIP_END THEN result \o <<SLIP_ESC, SLIP_ESC_END>>
    ELSE Append(result, byte)

\* The body of the for loop: one payload byte appended to result.
EncodeByte(result, byte) ==
    IF byte = SLIP_END THEN result \o <<SLIP_ESC, SLIP_ESC_END>>
    ELSE IF byte = SLIP_ESC THEN result \o <<SLIP_ESC, SLIP_ESC_ESC>>
    ELSE Append(result, byte)

RECURSIVE EncodeLoop(_, _, _)
EncodeLoop(data, i, result) ==
    IF i > Len(data) THEN result
    ELSE EncodeLoop(data, i + 1, EncodeByte(result, data[i]))

\* A plausible slip: the trailing delimiter is forgotten.
slip_encode_no_trailer(data) ==
    EncodeLoop(data, 1, <<SLIP_END>>)

slip_encode(data) ==
    Append(EncodeLoop(data, 1, <<SLIP_END>>), SLIP_END)

(***************************************************************************)
(* slip.py: slip_decode.  ValueError is the outcome ok = FALSE.            *)
(***************************************************************************)
DecodeOk(bytes) == [ok |-> TRUE, val |-> bytes, err |-> "none"]
ValueError(msg) == [ok |-> FALSE, val |-> <<>>, err |-> msg]

\* A plausible slip: an unknown byte after the escape byte is taken literally
\* instead of being rejected.
DecodeEscapeLenient(result, next_byte) ==
    IF next_byte = SLIP_ESC_END THEN DecodeOk(Append(result, SLIP_END))
    ELSE IF next_byte = SLIP_ESC_ESC THEN DecodeOk(Append(result, SLIP_ESC))
    ELSE DecodeOk(Append(result, next_byte))

\* The byte that follows an escape byte, resolved.
DecodeEscape(result, next_byte) ==
    IF next_byte = SLIP_ESC_END THEN DecodeOk(Append(result, SLIP_END))
    ELSE IF next_byte = SLIP_ESC_ESC THEN DecodeOk(Append(result, SLIP_ESC))
    ELSE ValueError("Invalid escape sequence")

RECURSIVE DecodeLoop(_, _, _)
DecodeLoop(data, i, result) ==
    IF i > Len(data) THEN DecodeOk(result)
    ELSE IF data[i] = SLIP_ESC THEN
        IF i + 1 > Len(data)
        THEN ValueError("Incomplete escape sequence at end of data")
        ELSE LET r == DecodeEscape(result, data[i + 1]) IN
             IF r.ok THEN DecodeLoop(data, i + 2, r.val) ELSE r
    ELSE IF data[i] # SLIP_END THEN DecodeLoop(data, i + 1, Append(result, data[i]))
    ELSE DecodeLoop(data, i + 1, result)

slip_decode(data) == DecodeLoop(data, 1, <<>>)

(***************************************************************************)
(* slip.py: SlipReader.  A feed() call is modelled with the exception it   *)
(* would let escape: raised = TRUE stops the loop over the bytes.          *)
(***************************************************************************)
NewReader == [buffer |-> <<>>, in_packet |-> FALSE, packets |-> <<>>]

\* A plausible slip: no try/except around slip_decode, so the ValueError
\* leaves feed() at the closing delimiter of the malformed packet.
FeedByteNoCatch(st, byte) ==
    IF byte = SLIP_END THEN
        IF st.r.in_packet /\ st.r.buffer # <<>> /\ ~slip_decode(st.r.buffer).ok
        THEN [st EXCEPT !.raised = TRUE]
        ELSE [r |-> [buffer |-> <<>>, in_packet |-> TRUE,
                     packets |-> IF st.r.in_packet /\ st.r.buffer # <<>>
                                 THEN Append(st.r.packets, slip_decode(st.r.buffer).val)
                                 ELSE st.r.packets],
              raised |-> FALSE]
    ELSE IF st.r.in_packet THEN [st EXCEPT !.r.buffer = Append(@, byte)]
    ELSE st

\* A plausible slip: the test of the buffer is left out, so two delimiters
\* in a row enqueue an empty packet.
FeedByteKeepsEmpty(st, byte) ==
    IF byte = SLIP_END THEN
        LET decoded == slip_decode(st.r.buffer)
            pk == IF st.r.in_packet /\ decoded.ok
                  THEN Append(st.r.packets, decoded.val)
                  ELSE st.r.packets
        IN [r |-> [buffer |-> <<>>, in_packet |-> TRUE, packets |-> pk],
            raised |-> FALSE]
    ELSE IF st.r.in_packet THEN [st EXCEPT !.r.buffer = Append(@, byte)]
    ELSE st

\* The body of the for loop of feed(): one byte.
FeedByte(st, byte) ==
    IF byte = SLIP_END THEN
        LET decoded == slip_decode(st.r.buffer)
            pk == IF st.r.in_packet /\ st.r.buffer # <<>> /\ decoded.ok
                  THEN Append(st.r.packets, decoded.val)
                  ELSE st.r.packets   \* except ValueError: pass
        IN [r |-> [buffer |-> <<>>, in_packet |-> TRUE, packets |-> pk],
            raised |-> FALSE]
    ELSE IF st.r.in_packet THEN [st EXCEPT !.r.buffer = Append(@, byte)]
    ELSE st

RECURSIVE FeedLoop(_, _, _)
FeedLoop(st, data, i) ==
    IF i > Len(data) \/ st.raised THEN st
    ELSE FeedLoop(FeedByte(st, data[i]), data, i + 1)

\* A plausible slip: the in-progress buffer is a local of the call, so a
\* packet split over two feed() calls loses its first part.
feed_local_buffer(r, data) ==
    FeedLoop([r |-> [r EXCEPT !.buffer = <<>>], raised |-> FALSE], data, 1)

\* feed(data): the reader after the call, and whether the call raised.
feed(r, data) == FeedLoop([r |-> r, raised |-> FALSE], data, 1)

has_packet(r) == Len(r.packets) > 0

NoPacket == [none |-> TRUE, pkt |-> <<>>]

\* A plausible slip: list.pop() instead of list.pop(0).
get_packet_lifo(r) ==
    IF r.packets # <<>>
    THEN [ret |-> [none |-> FALSE, pkt |-> r.packets[Len(r.packets)]],
          r |-> [r EXCEPT !.packets = SubSeq(@, 1, Len(@) - 1)]]
    ELSE [ret |-> NoPacket, r |-> r]

\* get_packet(): the value returned (None or a packet) and the reader after.
get_packet(r) ==
    IF r.packets # <<>>
    THEN [ret |-> [none |-> FALSE, pkt |-> Head(r.packets)],
          r |-> [r EXCEPT !.packets = Tail(@)]]
    ELSE [ret |-> NoPacket, r |-> r]

\* A plausible slip: clear() forgets to reset _in_packet.
clear_keeps_in_packet(r) ==
    [buffer |-> <<>>, in_packet |-> r.in_packet, packets |-> <<>>]

clear(r) == [buffer |-> <<>>, in_packet |-> FALSE, packets |-> <<>>]

\* The objects before any call.
NoDecode == [ok |-> FALSE, val |-> <<>>, err |-> "not called"]

NoParts == [pc |-> "none", q |-> 0, r |-> 0, i |-> 0, text |-> <<>>]

CodecIdle ==
    /\ cin = <<>> /\ cstage = "input" /\ cenc = <<>> /\ cdec = NoDecode
    /\ parts = NoParts

ReaderIdle ==
    /\ rd = NewReader /\ fed = <<>> /\ popped = <<>>
    /\ rlast = [op |-> "new", raised |-> FALSE, had |-> FALSE, ret |-> NoPacket,
                split |-> FALSE]
    /\ payloads = <<>>

(***************************************************************************)
(* client.py: LoRaMeshClient.  Python threads interleave between the       *)
(* accesses to the object's attributes, so every read or write of a shared *)
(* attribute is a step of its own.                                         *)
(***************************************************************************)
\* A packet id is a 32-bit number, written here as its two 16-bit halves
\* <<high, low>> (the model checker's integers end at 2^31 - 1).
Word == 65536
Id(n) == <<n \div Word, n % Word>>
\* 0xFFFFFFFF, the modulus of _next_packet_id.
PacketIdModulus == <<65535, 65535>>
\* The value _packet_id starts from.
StartIds == {<<0, 0>>}

\* The _send_command calls of one run, each made by some thread: two calls
\* overlap when made by two threads, and follow one another otherwise.
Callers == {"c1", "c2"}
\* Envelopes the device sends in one run.
MaxEmit == 2

\* The payload variants of FromDevice the core tells apart: one response
\* variant (all are handled alike) and the five event variants.
Kinds == <<"result", "message_received", "gps_received", "neighbor_changed",
           "emergency_received", "log">>
ResponseKinds == {"result"}
EventKinds == {"message_received", "gps_received", "neighbor_changed",
               "emergency_received", "log"}
\* The event variants the device sends and the handlers callers register.
SentEventKinds == {"log"}
Handlers == {"h1"}
\* The handlers registered where one handler replaces another.
DispatchHandlers == {"h1", "h2"}
\* The request_id an unsolicited event carries: the field's default 0, or
\* a small id that may equal a pending one.
EventIds == {<<0, 0>>, <<0, 1>>}

NoEnv == [request_id |-> <<0, 0>>, payload |-> "none", seq |-> 0]

\* proto/v1/serial_pb2: the wire form of a FromDevice packet.
KindCode(kind) == CHOOSE i \in 1..Len(Kinds) : Kinds[i] = kind
SerializeFromDevice(env) ==
    <<env.request_id[1], env.request_id[2], KindCode(env.payload), env.seq>>

\* SerialPacket(packet_id, to_device).SerializeToString(); the command is
\* opaque to the core.
SerializeToString(pid) == <<pid[1], pid[2]>>

\* SerialPacket().ParseFromString(data) and HasField("from_device").
ParseFromString(data) ==
    IF Len(data) = 4 /\ data[3] \in 1..Len(Kinds)
    THEN [ok |-> TRUE,
          env |-> [request_id |-> <<data[1], data[2]>>,
                   payload |-> Kinds[data[3]], seq |-> data[4]]]
    ELSE [ok |-> FALSE, env |-> NoEnv]

Put(map, key, value) == (key :> value) @@ map
Without(map, key) == [k \in DOMAIN map \ {key} |-> map[k]]
EmptyMap == [k \in {} |-> 0]

\* A plausible slip: the connection test is left out.
is_connected_unchecked == TRUE

is_connected == serial = "open"

\* (p + 1) % 0xFFFFFFFF for p below the modulus.
NextId(p) ==
    LET sum == IF p[2] + 1 < Word THEN <<p[1], p[2] + 1>> ELSE <<p[1] + 1, 0>>
    IN IF sum = PacketIdModulus THEN <<0, 0>> ELSE sum

NoResult == [kind |-> "none", resp |-> NoEnv]
IdleCall == [pc |-> "idle", tmp |-> <<0, 0>>, id |-> <<0, 0>>, flag |-> FALSE,
             res |-> NoResult, wrote |-> FALSE, arrived |-> FALSE, by |-> NoEnv,
             sent |-> 0]

\* Most connect() calls that open the port; each creates one thread.
MaxConnects == 3

\* _reader_thread = None; the threads are numbered from 1.
NoThread == 0

NoSnap == [serial |-> "None", running |-> FALSE, reader_thread |-> NoThread,
           rd |-> NewReader]
NewThread == [pc |-> "unborn", data |-> <<>>, epoch |-> 0, fault |-> 0]
IdleCtl == [pc |-> "idle", nconn |-> 0, last |-> "none", snap |-> NoSnap,
            cut |-> {}]

LifeIdle ==
    /\ lock = "free"
    /\ wire = <<>>
    /\ reader_thread = NoThread
    /\ threads = [t \in 1..MaxConnects |-> NewThread]
    /\ ctl = IdleCtl

\* No public operation entered yet; the device works.
IdleApi == [pc |-> "idle", op |-> "none", given |-> "None", text |-> <<>>,
            priority |-> "None", timeout |-> "None", auto_split |-> FALSE,
            chunks |-> <<>>, i |-> 0, part |-> <<>>, cmds |-> <<>>,
            res |-> "none"]

ApiIdle ==
    /\ api = IdleApi
    /\ port = "ok"

\* The pcs at which a call holds its id and its wait has not ended.
BeforeWaitEnds == {"register", "send_check", "write", "wait"}

ClientIdle ==
    /\ serial = "None"
    /\ running = FALSE
    /\ packet_id \in StartIds
    /\ response_events = EmptyMap
    /\ pending_responses = EmptyMap
    /\ callbacks = [k \in EventKinds |-> "None"]
    /\ call = [c \in Callers |-> IdleCall]
    /\ rthread = [pc |-> "stopped", cur |-> NoEnv, request_id |-> <<0, 0>>]
    /\ tx = <<>>
    /\ rx = <<>>
    /\ nemit = 0
    /\ history = [invoked |-> <<>>, writer |-> <<>>, answered |-> EmptyMap,
                  late |-> {}, fate |-> EmptyMap,
                  registered |-> [k \in EventKinds |-> "None"],
                  raised |-> {}]
    /\ LifeIdle
    /\ ApiIdle

Init == CodecIdle /\ ReaderIdle /\ ClientIdle

\* connect()
Connect ==
    /\ ~is_connected
    /\ serial' = "open"
    /\ rd' = clear(rd)
    /\ running' = TRUE
    /\ rthread' = [pc |-> "read", cur |-> NoEnv, request_id |-> <<0, 0>>]
    /\ UNCHANGED <<packet_id, response_events, pending_responses, callbacks,
                   call, tx, rx, nemit, history, lifeVars,
                   apiVars, codecVars, readerHist>>

\* A plausible slip: a handler already in place is kept, and only None
\* takes it out.
on_callback_keep_first(slots, kind, callback) ==
    IF slots[kind] = "None" \/ callback = "None"
    THEN [slots EXCEPT ![kind] = callback]
    ELSE slots

\* self._on_<kind> = callback: the five slots after the assignment.
on_callback(slots, kind, callback) == [slots EXCEPT ![kind] = callback]

\* on_message() .. on_log(); a call that names the handler already in place
\* changes nothing.
SetCallback(kind, handler) ==
    /\ callbacks[kind] # handler
    /\ callbacks' = on_callback(callbacks, kind, handler)
    /\ history' = [history EXCEPT !.registered[kind] = handler]
    /\ UNCHANGED <<serial, running, packet_id, response_events,
                   pending_responses, call, rthread, tx, rx, nemit,
                   lifeVars, apiVars, codecVars, readerVars>>

\* _send_command entered; _next_packet_id reads _packet_id and adds one.
CallSend(c) ==
    /\ call[c].pc = "idle"
    /\ call' = [call EXCEPT ![c] =
                    [IdleCall EXCEPT !.pc = "nid_store", !.tmp = NextId(packet_id)]]
    /\ UNCHANGED <<serial, running, packet_id, response_events,
                   pending_responses, callbacks, rthread, tx, rx, nemit,
                   history, lifeVars, apiVars, codecVars, readerVars>>

\* _next_packet_id stores the new value in _packet_id.
NidStore(c) ==
    /\ call[c].pc = "nid_store"
    /\ packet_id' = call[c].tmp
    /\ call' = [call EXCEPT ![c].pc = "nid_return"]
    /\ UNCHANGED <<serial, running, response_events, pending_responses,
                   callbacks, rthread, tx, rx, nemit, history,
                   lifeVars, apiVars, codecVars, readerVars>>

\* _next_packet_id returns _packet_id, read again.
NidReturn(c) ==
    /\ call[c].pc = "nid_return"
    /\ call' = [call EXCEPT ![c].pc = "register", ![c].id = packet_id]
    /\ UNCHANGED <<serial, running, packet_id, response_events,
                   pending_responses, callbacks, rthread, tx, rx, nemit, history,
                   lifeVars, apiVars, codecVars, readerVars>>

\* self._response_events[packet_id] = event, a new Event.
Register(c) ==
    /\ call[c].pc = "register"
    /\ response_events' = Put(response_events, call[c].id, c)
    /\ call' = [call EXCEPT ![c].pc = "send_check"]
    /\ UNCHANGED <<serial, running, packet_id, pending_responses, callbacks,
                   rthread, tx, rx, nemit, history, lifeVars,
                   apiVars, codecVars,
                   readerVars>>

\* _send_packet: the is_connected test.
SendCheck(c) ==
    /\ call[c].pc = "send_check"
    /\ call' = IF is_connected
               THEN [call EXCEPT ![c].pc = "write"]
               ELSE [call EXCEPT ![c].pc = "finally",
                                 ![c].res = [kind |-> "ConnectionError",
                                             resp |-> NoEnv]]
    /\ UNCHANGED <<serial, running, packet_id, response_events,
                   pending_responses, callbacks, rthread, tx, rx, nemit, history,
                   lifeVars, apiVars, codecVars, readerVars>>

\* _send_packet: the frame written and flushed under _lock.
WriteFrame(c) ==
    /\ call[c].pc = "write"
    /\ tx' = Append(tx, slip_encode(SerializeToString(call[c].id)))
    /\ call' = [call EXCEPT ![c].pc = "wait", ![c].wrote = TRUE]
    /\ history' = [history EXCEPT !.writer = Append(@, c)]
    /\ UNCHANGED <<serial, running, packet_id, response_events,
                   pending_responses, callbacks, rthread, rx, nemit,
                   lifeVars, apiVars, codecVars, readerVars>>

\* event.wait(timeout) returns True.
WaitSignalled(c) ==
    /\ call[c].pc = "wait"
    /\ call[c].flag
    /\ call' = [call EXCEPT ![c].pc = "pop"]
    /\ UNCHANGED <<serial, running, packet_id, response_events,
                   pending_responses, callbacks, rthread, tx, rx, nemit, history,
                   lifeVars, apiVars, codecVars, readerVars>>

\* A plausible slip: the wait is given no timeout.
WaitUnbounded == FALSE

\* timeout is a number (the argument, or self._timeout): the wait ends.
WaitIsBounded == TRUE

\* event.wait(timeout) returns False: raise TimeoutError.
WaitTimeout(c) ==
    /\ call[c].pc = "wait"
    /\ ~call[c].flag
    /\ WaitIsBounded
    /\ call' = [call EXCEPT ![c].pc = "finally",
                            ![c].res = [kind |-> "TimeoutError", resp |-> NoEnv]]
    /\ UNCHANGED <<serial, running, packet_id, response_events,
                   pending_responses, callbacks, rthread, tx, rx, nemit,
                   history, lifeVars, apiVars, codecVars, readerVars>>

\* return self._pending_responses.pop(packet_id): the value, or KeyError.
PopResponse(c) ==
    /\ call[c].pc = "pop"
    /\ IF call[c].id \in DOMAIN pending_responses
       THEN /\ call' = [call EXCEPT ![c].pc = "finally",
                            ![c].res = [kind |-> "response",
                                        resp |-> pending_responses[call[c].id]]]
            /\ pending_responses' = Without(pending_responses, call[c].id)
       ELSE /\ call' = [call EXCEPT ![c].pc = "finally",
                            ![c].res = [kind |-> "KeyError", resp |-> NoEnv]]
            /\ UNCHANGED pending_responses
    /\ UNCHANGED <<serial, running, packet_id, response_events, callbacks,
                   rthread, tx, rx, nemit, history, lifeVars,
                   apiVars, codecVars,
                   readerVars>>

\* What the finally clause leaves of _response_events: the entry under the
\* call's id is none of it afterwards, whoever put it there.
\* A plausible slip: the entry is popped on the success path only.
DeregisterOnSuccessOnly(events, c) ==
    IF call[c].res.kind = "response" THEN Without(events, call[c].id) ELSE events

Deregister(events, c) == Without(events, call[c].id)

\* finally: self._response_events.pop(packet_id, None); the call is over.
Finally(c) ==
    /\ call[c].pc = "finally"
    /\ response_events' = Deregister(response_events, c)
    /\ call' = [call EXCEPT ![c].pc = "done"]
    /\ UNCHANGED <<serial, running, packet_id, pending_responses, callbacks,
                   rthread, tx, rx, nemit, history,
                   lifeVars, apiVars, codecVars, readerVars>>

RECURSIVE Concat(_)
Concat(frames) ==
    IF frames = <<>> THEN <<>> ELSE Head(frames) \o Concat(Tail(frames))

\* _read_loop: data = self._serial.read(256); self._slip_reader.feed(data).
\* The port hands over the bytes of one or more whole frames.
ReaderRead ==
    /\ rthread.pc = "read"
    /\ running /\ serial # "None"
    /\ \E k \in 1..Len(rx) :
        /\ rd' = feed(rd, Concat(SubSeq(rx, 1, k))).r
        /\ rx' = SubSeq(rx, k + 1, Len(rx))
    /\ rthread' = [rthread EXCEPT !.pc = "loop"]
    /\ UNCHANGED <<serial, running, packet_id, response_events,
                   pending_responses, callbacks, call, tx, nemit,
                   history, lifeVars, apiVars, codecVars, readerHist>>

\* The pending request an inbound envelope completes: the one registered
\* under its request_id, if any.
\* A plausible slip: the envelope completes whichever request is pending.
MatchAnyPending(request_id, events) ==
    IF events = EmptyMap THEN {} ELSE {CHOOSE k \in DOMAIN events : TRUE}

Match(request_id, events) ==
    IF request_id \in DOMAIN events THEN {request_id} ELSE {}

\* The packets that end at once: an empty one is not handed to
\* _handle_packet, and one ParseFromString raises on ends in
\* `except Exception: pass`.
\* A plausible slip: no except clause; the packet object is used as it is.
DroppedIfEmpty(pkt, p) == pkt = <<>>

Dropped(pkt, p) == pkt = <<>> \/ ~p.ok

\* _read_loop: while has_packet(): get_packet(); _handle_packet up to the
\* test `request_id in self._response_events`.
ReaderNextPacket ==
    /\ rthread.pc = "loop"
    /\ IF ~has_packet(rd)
       THEN /\ rthread' = [pc |-> "read", cur |-> NoEnv, request_id |-> <<0, 0>>]
            /\ UNCHANGED <<rd, call, history>>
       ELSE LET g == get_packet(rd)
                p == ParseFromString(g.ret.pkt)
                m == Match(p.env.request_id, response_events)
            IN  /\ rd' = g.r
                /\ IF Dropped(g.ret.pkt, p)
                   THEN /\ rthread' = [pc |-> "loop", cur |-> NoEnv,
                                       request_id |-> <<0, 0>>]
                        /\ UNCHANGED <<call, history>>
                   ELSE /\ rthread' =
                            IF m # {}
                            THEN [pc |-> "store", cur |-> p.env,
                                  request_id |-> CHOOSE k \in m : TRUE]
                            ELSE [pc |-> "event", cur |-> p.env,
                                  request_id |-> p.env.request_id]
                        /\ call' = [c \in Callers |->
                                IF call[c].pc \in BeforeWaitEnds
                                   /\ call[c].id = p.env.request_id
                                THEN [call[c] EXCEPT !.arrived = TRUE]
                                ELSE call[c]]
                        /\ history' =
                            [history EXCEPT
                                !.late =
                                    IF /\ p.env.seq \in DOMAIN history.answered
                                       /\ call[history.answered[p.env.seq]].res.kind
                                              = "TimeoutError"
                                    THEN @ \cup {p.env.seq}
                                    ELSE @,
                                !.fate = Put(@, p.env.seq,
                                             IF m # {} THEN "store" ELSE "event")]
    /\ UNCHANGED <<serial, running, packet_id, response_events,
                   pending_responses, callbacks, tx, rx, nemit,
                   lifeVars, apiVars, codecVars, readerHist>>

\* _handle_packet: self._pending_responses[request_id] = response
ReaderStore ==
    /\ rthread.pc = "store"
    /\ pending_responses' = Put(pending_responses, rthread.request_id, rthread.cur)
    /\ rthread' = [rthread EXCEPT !.pc = "set"]
    /\ UNCHANGED <<serial, running, packet_id, response_events, callbacks,
                   call, tx, rx, nemit, history, lifeVars,
                   apiVars, codecVars, readerVars>>

\* The callers whose Event the set() of _handle_packet fires.
\* A plausible slip: every waiting caller is woken.
SignalledAll(request_id, events) ==
    {events[k] : k \in DOMAIN events}

Signalled(request_id, events) ==
    IF request_id \in DOMAIN events THEN {events[request_id]} ELSE {}

\* _handle_packet: self._response_events[request_id].set(); a KeyError
\* (the entry is gone) ends in `except Exception: pass`.
ReaderSet ==
    /\ rthread.pc = "set"
    /\ call' = [c \in Callers |->
                    IF c \in Signalled(rthread.request_id, response_events)
                    THEN [call[c] EXCEPT !.flag = TRUE, !.by = rthread.cur,
                                         !.arrived = TRUE]
                    ELSE call[c]]
    /\ rthread' = [pc |-> "loop", cur |-> NoEnv, request_id |-> <<0, 0>>]
    /\ UNCHANGED <<serial, running, packet_id, response_events,
                   pending_responses, callbacks, tx, rx, nemit,
                   history, lifeVars, apiVars, codecVars, readerVars>>

\* The slot _handle_event tests for a payload: the if / elif chain.
\* A plausible slip: the last branch of the chain is a plain else.
SlotOfElseLog(payload_type) ==
    IF payload_type \in EventKinds \ {"log"} THEN payload_type ELSE "log"

SlotOf(payload_type) ==
    IF payload_type \in EventKinds THEN payload_type ELSE "none"

\* _handle_event: WhichOneof("payload") and the test of the slot.
ReaderEvent ==
    /\ rthread.pc = "event"
    /\ LET slot == SlotOf(rthread.cur.payload) IN
        rthread' = IF slot # "none" /\ callbacks[slot] # "None"
                   THEN [rthread EXCEPT !.pc = "invoke"]
                   ELSE [pc |-> "loop", cur |-> NoEnv, request_id |-> <<0, 0>>]
    /\ UNCHANGED <<serial, running, packet_id, response_events,
                   pending_responses, callbacks, call, tx, rx, nemit,
                   history, lifeVars, apiVars, codecVars, readerVars>>

\* _handle_event: the slot read again and called; calling None is a
\* TypeError that ends in `except Exception: pass`.
ReaderInvoke ==
    /\ rthread.pc = "invoke"
    /\ LET slot == SlotOf(rthread.cur.payload) IN
        history' = IF callbacks[slot] # "None"
                   THEN [history EXCEPT !.invoked =
                            Append(@, [slot |-> slot, handler |-> callbacks[slot],
                                       env |-> rthread.cur])]
                   ELSE history
    /\ rthread' = [pc |-> "loop", cur |-> NoEnv, request_id |-> <<0, 0>>]
    /\ UNCHANGED <<serial, running, packet_id, response_events,
                   pending_responses, callbacks, call, tx, rx, nemit,
                   lifeVars, apiVars, codecVars, readerVars>>

\* Where the reader thread goes on when a handler raises: the exception
\* ends in `except Exception: pass` of _handle_packet, which returns to the
\* while has_packet() loop.
\* A plausible slip: no except clause around the dispatch; the exception
\* ends the thread.
HandlerRaiseEndsThread == "dead"

AfterHandlerRaise == "loop"

\* _handle_event: the handler is called and raises.
ReaderInvokeRaises ==
    /\ rthread.pc = "invoke"
    /\ LET slot == SlotOf(rthread.cur.payload) IN
        /\ callbacks[slot] # "None"
        /\ history' = [history EXCEPT
                            !.invoked =
                                Append(@, [slot |-> slot,
                                           handler |-> callbacks[slot],
                                           env |-> rthread.cur]),
                            !.raised = @ \cup {rthread.cur.seq}]
    /\ rthread' = [pc |-> AfterHandlerRaise, cur |-> NoEnv,
                   request_id |-> <<0, 0>>]
    /\ UNCHANGED <<serial, running, packet_id, response_events,
                   pending_responses, callbacks, call, tx, rx, nemit,
                   lifeVars, apiVars, codecVars, readerVars>>

\* The device answers a command it has received: a response envelope
\* carrying the command's packet_id.
DeviceRespond ==
    /\ nemit < MaxEmit
    /\ \E i \in 1..Len(tx) :
        LET env == [request_id |-> <<slip_decode(tx[i]).val[1],
                                    slip_decode(tx[i]).val[2]>>,
                    payload |-> "result", seq |-> nemit + 1]
        IN /\ rx' = Append(rx, slip_encode(SerializeFromDevice(env)))
           /\ history' = [history EXCEPT !.answered =
                                Put(@, nemit + 1, history.writer[i])]
    /\ nemit' = nemit + 1
    /\ UNCHANGED <<serial, running, packet_id, response_events,
                   pending_responses, callbacks, call, rthread, tx,
                   lifeVars, apiVars, codecVars, readerVars>>

\* The device sends an envelope of its own accord.
EmitEvent(kind, rid) ==
    /\ nemit < MaxEmit
    /\ is_connected
    /\ LET env == [request_id |-> rid, payload |-> kind, seq |-> nemit + 1]
       IN rx' = Append(rx, slip_encode(SerializeFromDevice(env)))
    /\ nemit' = nemit + 1
    /\ UNCHANGED <<serial, running, packet_id, response_events,
                   pending_responses, callbacks, call, rthread, tx, history,
                   lifeVars, apiVars, codecVars, readerVars>>

\* The device sends an unsolicited event.
DeviceEvent ==
    \E kind \in SentEventKinds, rid \in EventIds : EmitEvent(kind, rid)

Next ==
    \/ Connect
    \/ \E kind \in SentEventKinds, handler \in Handlers \cup {"None"} :
            SetCallback(kind, handler)
    \/ \E c \in Callers :
        \/ CallSend(c)
        \/ NidStore(c)
        \/ NidReturn(c)
        \/ Register(c)
        \/ SendCheck(c)
        \/ WriteFrame(c)
        \/ WaitSignalled(c)
        \/ WaitTimeout(c)
        \/ PopResponse(c)
        \/ Finally(c)
    \/ ReaderRead
    \/ ReaderNextPacket
    \/ ReaderStore
    \/ ReaderSet
    \/ ReaderEvent
    \/ ReaderInvoke
    \/ DeviceRespond
    \/ DeviceEvent

Spec == Init /\ [][Next]_vars

(***************************************************************************)
(* SpecWrite: _send_packet with the write under _lock taken apart: the     *)
(* lock is acquired, the port puts the frame on the wire a byte at a time, *)
(* the port is flushed, the lock is released.                              *)
(***************************************************************************)
Frame(c) == slip_encode(SerializeToString(call[c].id))

\* A plausible slip: the write is not under the lock.
CanAcquireAlways(holder) == TRUE

\* with self._lock: entered only when no thread holds the lock.
CanAcquire(holder) == holder = "free"

LockAcquire(c) ==
    /\ call[c].pc = "write"
    /\ CanAcquire(lock)
    /\ lock' = c
    /\ call' = [call EXCEPT ![c].pc = "port_write", ![c].sent = 0]
    /\ UNCHANGED <<serial, running, packet_id, response_events,
                   pending_responses, callbacks, rthread, tx, rx, nemit,
                   history, wire, reader_thread, threads, ctl,
                   apiVars, codecVars, readerVars>>

\* What a call on self._serial raises: on None the attribute lookup fails,
\* on a closed port and on a device error pyserial raises.
PortError ==
    IF serial = "None" THEN "AttributeError"
    ELSE IF serial # "open" THEN "PortNotOpenError"
    ELSE "SerialException"

\* The serial device starts to fail (unplugged, driver error): read, write
\* and flush raise until it works again.
PortFault ==
    /\ serial = "open"
    /\ port = "ok"
    /\ port' = "failing"
    /\ UNCHANGED <<serial, running, packet_id, response_events,
                   pending_responses, callbacks, call, rthread, tx, rx, nemit,
                   history, lifeVars, api, codecVars, readerVars>>

PortRecover ==
    /\ port = "failing"
    /\ port' = "ok"
    /\ UNCHANGED <<serial, running, packet_id, response_events,
                   pending_responses, callbacks, call, rthread, tx, rx, nemit,
                   history, lifeVars, api, codecVars, readerVars>>

\* self._serial.write(framed): the next byte goes out, or the call raises.
PortWrite(c) ==
    /\ call[c].pc = "port_write"
    /\ IF serial = "open" /\ port = "ok"
       THEN /\ wire' = Append(wire, Frame(c)[call[c].sent + 1])
            /\ call' = [call EXCEPT
                            ![c].sent = @ + 1,
                            ![c].pc = IF call[c].sent + 1 = Len(Frame(c))
                                      THEN "port_flush" ELSE "port_write"]
       ELSE /\ call' = [call EXCEPT
                            ![c].pc = "unlock_err",
                            ![c].res = [kind |-> PortError, resp |-> NoEnv]]
            /\ UNCHANGED wire
    /\ UNCHANGED <<serial, running, packet_id, response_events,
                   pending_responses, callbacks, rthread, tx, rx, nemit,
                   history, lock, reader_thread, threads, ctl,
                   apiVars, codecVars, readerVars>>

\* self._serial.flush()
PortFlush(c) ==
    /\ call[c].pc = "port_flush"
    /\ call' = IF serial = "open" /\ port = "ok"
               THEN [call EXCEPT ![c].pc = "unlock"]
               ELSE [call EXCEPT
                        ![c].pc = "unlock_err",
                        ![c].res = [kind |-> PortError, resp |-> NoEnv]]
    /\ UNCHANGED <<serial, running, packet_id, response_events,
                   pending_responses, callbacks, rthread, tx, rx, nemit,
                   history, lock, wire, reader_thread, threads, ctl,
                   apiVars, codecVars, readerVars>>

\* The holder of _lock once the with block is left, at its end or by an
\* exception.
\* A plausible slip: acquire() and release() with no try / finally.
AfterWithNoFinally(holder, pc) == IF pc = "unlock" THEN "free" ELSE holder

AfterWith(holder, pc) == "free"

\* The with block is left: the lock is released; _send_packet returns, or
\* the exception goes on to the finally clause of _send_command.
LockRelease(c) ==
    /\ call[c].pc \in {"unlock", "unlock_err"}
    /\ lock' = AfterWith(lock, call[c].pc)
    /\ IF call[c].pc = "unlock"
       THEN /\ call' = [call EXCEPT ![c].pc = "wait", ![c].wrote = TRUE]
            /\ tx' = Append(tx, Frame(c))
            /\ history' = [history EXCEPT !.writer = Append(@, c)]
       ELSE /\ call' = [call EXCEPT ![c].pc = "finally"]
            /\ UNCHANGED <<tx, history>>
    /\ UNCHANGED <<serial, running, packet_id, response_events,
                   pending_responses, callbacks, rthread, rx, nemit,
                   wire, reader_thread, threads, ctl,
                   apiVars, codecVars, readerVars>>

NextWrite ==
    \/ Connect
    \/ \E c \in Callers :
        \/ CallSend(c)
        \/ NidStore(c)
        \/ NidReturn(c)
        \/ Register(c)
        \/ SendCheck(c)
        \/ LockAcquire(c)
        \/ PortWrite(c)
        \/ PortFlush(c)
        \/ LockRelease(c)
        \/ WaitTimeout(c)
        \/ Finally(c)

SpecWrite == Init /\ [][NextWrite]_vars

\* SpecWriteFault: the same callers on a port whose write() and flush() can
\* fail for a while.
NextWriteFault == NextWrite \/ PortFault \/ PortRecover

SpecWriteFault == Init /\ [][NextWriteFault]_vars

(***************************************************************************)
(* SpecLife: connect() and disconnect() called by one thread, statement by *)
(* statement, the _read_loop threads they create, one caller in            *)
(* _send_command and the device.  _handle_packet is one step of a thread   *)
(* (the time it spends there, handlers included, is not bounded).          *)
(***************************************************************************)
LifeCallers == {"c1"}

engineVars == <<packet_id, response_events, pending_responses, callbacks,
                call, rthread, tx, nemit, history, lock, wire>>

\* connect(): the is_connected test and serial.Serial(...).
ConnectCall ==
    /\ ctl.pc = "idle"
    /\ IF is_connected
       THEN /\ ctl.last # "connect_noop"
            /\ ctl' = [ctl EXCEPT !.last = "connect_noop"]
            /\ UNCHANGED serial
       ELSE /\ ctl.nconn < MaxConnects
            /\ serial' = "open"
            /\ ctl' = [ctl EXCEPT !.pc = "c_clear", !.nconn = @ + 1,
                                  !.last = "connect"]
    /\ UNCHANGED <<running, reader_thread, threads, rx, engineVars,
                   apiVars, codecVars, readerVars>>

\* connect(): self._slip_reader.clear()
ConnectClear ==
    /\ ctl.pc = "c_clear"
    /\ rd' = clear(rd)
    /\ ctl' = [ctl EXCEPT !.pc = "c_run"]
    /\ UNCHANGED <<serial, running, reader_thread, threads, rx, engineVars,
                   apiVars, codecVars, readerHist>>

\* connect(): self._running = True
ConnectRun ==
    /\ ctl.pc = "c_run"
    /\ running' = TRUE
    /\ ctl' = [ctl EXCEPT !.pc = "c_spawn"]
    /\ UNCHANGED <<serial, reader_thread, threads, rx, engineVars,
                   apiVars, codecVars, readerVars>>

\* connect(): the Thread is created, kept in _reader_thread and started.
ConnectSpawn ==
    /\ ctl.pc = "c_spawn"
    /\ threads' = [threads EXCEPT ![ctl.nconn] = [NewThread EXCEPT !.pc = "test"]]
    /\ reader_thread' = ctl.nconn
    /\ ctl' = [ctl EXCEPT !.pc = "idle"]
    /\ UNCHANGED <<serial, running, rx, engineVars,
                   apiVars, codecVars, readerVars>>

\* disconnect(): self._running = False
DisconnectCall ==
    /\ ctl.pc = "idle"
    /\ running' = FALSE
    /\ ctl' = [ctl EXCEPT !.pc = "d_join", !.last = "disconnect",
                          !.snap = [serial |-> serial, running |-> running,
                                    reader_thread |-> reader_thread,
                                    rd |-> rd]]
    /\ UNCHANGED <<serial, reader_thread, threads, rx, engineVars,
                   apiVars, codecVars, readerVars>>

\* join(timeout=1.0) gives up on a thread that stays a second in one
\* place: a thread inside _handle_packet; read() returns within its 0.1 s
\* timeout and the sleep of the except branch lasts 0.1 s.
JoinCanExpire(t) == threads[t].pc = "busy"

\* disconnect(): if self._reader_thread: join(timeout=1.0); = None
DisconnectJoin ==
    /\ ctl.pc = "d_join"
    /\ IF reader_thread = NoThread
       THEN UNCHANGED reader_thread
       ELSE /\ \/ threads[reader_thread].pc = "exited"
               \/ JoinCanExpire(reader_thread)
            /\ reader_thread' = NoThread
    /\ ctl' = [ctl EXCEPT !.pc = "d_close"]
    /\ UNCHANGED <<serial, running, threads, rx, engineVars,
                   apiVars, codecVars, readerVars>>

\* disconnect(): if self._serial: self._serial.close()
DisconnectClose ==
    /\ ctl.pc = "d_close"
    /\ IF serial # "None"
       THEN /\ serial' = "closed"
            /\ ctl' = [ctl EXCEPT !.pc = "d_none",
                                  !.cut = @ \cup {c \in Callers :
                                                    call[c].pc = "wait"}]
       ELSE UNCHANGED serial /\ ctl' = [ctl EXCEPT !.pc = "d_clear"]
    /\ UNCHANGED <<running, reader_thread, threads, rx, engineVars,
                   apiVars, codecVars, readerVars>>

\* disconnect(): self._serial = None
DisconnectNone ==
    /\ ctl.pc = "d_none"
    /\ serial' = "None"
    /\ ctl' = [ctl EXCEPT !.pc = "d_clear"]
    /\ UNCHANGED <<running, reader_thread, threads, rx, engineVars,
                   apiVars, codecVars, readerVars>>

\* disconnect(): self._slip_reader.clear(); disconnect returns.
DisconnectClear ==
    /\ ctl.pc = "d_clear"
    /\ rd' = clear(rd)
    /\ ctl' = [ctl EXCEPT !.pc = "idle"]
    /\ UNCHANGED <<serial, running, reader_thread, threads, rx, engineVars,
                   apiVars, codecVars, readerHist>>

\* _read_loop: while self._running and self._serial
ThreadTest(t) ==
    /\ threads[t].pc = "test"
    /\ threads' = [threads EXCEPT ![t].pc =
                        IF running /\ serial # "None" THEN "read" ELSE "exited"]
    /\ UNCHANGED <<serial, running, reader_thread, ctl, rx, engineVars,
                   apiVars, codecVars, readerVars>>

\* The lengths read() returns of a frame in flight: all of it, or its
\* first half.
ReadSizes(frame) == {Len(frame) \div 2, Len(frame)}

\* _read_loop: data = self._serial.read(256): some of the bytes the device
\* has sent, or none (the read timed out); on None, a closed port or a
\* device error the call raises.
ThreadRead(t) ==
    /\ threads[t].pc = "read"
    /\ IF serial = "open" /\ port = "ok"
       THEN \/ /\ threads' = [threads EXCEPT ![t].pc = "test"]
               /\ UNCHANGED rx
            \/ /\ rx # <<>>
               /\ \E k \in ReadSizes(Head(rx)) :
                    /\ threads' = [threads EXCEPT
                                      ![t].pc = "feed",
                                      ![t].data = SubSeq(Head(rx), 1, k),
                                      ![t].epoch = ctl.nconn]
                    /\ rx' = IF k = Len(Head(rx)) THEN Tail(rx)
                             ELSE <<SubSeq(Head(rx), k + 1, Len(Head(rx)))>>
                                    \o Tail(rx)
       ELSE /\ threads' = [threads EXCEPT
                                ![t].pc = "except",
                                ![t].fault = IF serial = "open"
                                             THEN nemit + 1 ELSE @]
            /\ UNCHANGED rx
    /\ UNCHANGED <<serial, running, reader_thread, ctl, engineVars,
                   apiVars, codecVars, readerVars>>

\* _read_loop: self._slip_reader.feed(data)
ThreadFeed(t) ==
    /\ threads[t].pc = "feed"
    /\ rd' = feed(rd, threads[t].data).r
    /\ threads' = [threads EXCEPT ![t].pc = "loop", ![t].data = <<>>]
    /\ UNCHANGED <<serial, running, reader_thread, ctl, rx, engineVars,
                   apiVars, codecVars, readerHist>>

\* _read_loop: while has_packet(): packet_data = get_packet();
\* if packet_data: _handle_packet(packet_data) is entered.
ThreadNextPacket(t) ==
    /\ threads[t].pc = "loop"
    /\ IF has_packet(rd)
       THEN LET g == get_packet(rd) IN
            /\ rd' = g.r
            /\ threads' = IF g.ret.pkt # <<>>
                          THEN [threads EXCEPT ![t].pc = "busy",
                                               ![t].data = g.ret.pkt]
                          ELSE threads
       ELSE /\ threads' = [threads EXCEPT ![t].pc = "test"]
            /\ UNCHANGED rd
    /\ UNCHANGED <<serial, running, reader_thread, ctl, rx, engineVars,
                   apiVars, codecVars, readerHist>>

\* _handle_packet returns: a response for a registered id was stored and
\* its Event set; anything else went to _handle_event or was dropped.
ThreadHandled(t) ==
    /\ threads[t].pc = "busy"
    /\ LET p == ParseFromString(threads[t].data)
           m == IF p.ok THEN Match(p.env.request_id, response_events) ELSE {}
       IN IF m # {}
          THEN /\ pending_responses' =
                        Put(pending_responses, p.env.request_id, p.env)
               /\ call' = [c \in Callers |->
                             IF c \in Signalled(p.env.request_id, response_events)
                             THEN [call[c] EXCEPT !.flag = TRUE, !.by = p.env,
                                                  !.arrived = TRUE]
                             ELSE call[c]]
          ELSE UNCHANGED <<pending_responses, call>>
    /\ threads' = [threads EXCEPT ![t].pc = "loop", ![t].data = <<>>]
    /\ UNCHANGED <<serial, running, reader_thread, ctl, rx, packet_id,
                   response_events, callbacks, rthread, tx, nemit, history,
                   lock, wire, apiVars, codecVars, readerVars>>

\* Where _read_loop goes on after the except clause: the while test.
\* A plausible slip: the exception ends the loop.
ReadFailureEnds == "exited"

AfterReadFailure == "test"

\* _read_loop: except Exception: if self._running: time.sleep(0.1)
ThreadExcept(t) ==
    /\ threads[t].pc = "except"
    /\ threads' = [threads EXCEPT ![t].pc = AfterReadFailure]
    /\ UNCHANGED <<serial, running, reader_thread, ctl, rx, engineVars,
                   apiVars, codecVars, readerVars>>

LifeSteps ==
    \/ ConnectCall
    \/ ConnectClear
    \/ ConnectRun
    \/ ConnectSpawn
    \/ DisconnectCall
    \/ DisconnectJoin
    \/ DisconnectClose
    \/ DisconnectNone
    \/ DisconnectClear
    \/ \E t \in 1..MaxConnects :
        \/ ThreadTest(t)
        \/ ThreadRead(t)
        \/ ThreadFeed(t)
        \/ ThreadNextPacket(t)
        \/ ThreadHandled(t)
        \/ ThreadExcept(t)

NextLife == LifeSteps \/ DeviceEvent

SpecLife == Init /\ [][NextLife]_vars

\* SpecLifeFair: every thread keeps running (read() returns within its
\* timeout, _handle_packet and the handlers it calls return), and a
\* disconnect() that was entered goes on.
SpecLifeFair ==
    /\ SpecLife
    /\ \A t \in 1..MaxConnects :
            WF_vars(\/ ThreadTest(t)
                    \/ ThreadRead(t)
                    \/ ThreadFeed(t)
                    \/ ThreadNextPacket(t)
                    \/ ThreadHandled(t)
                    \/ ThreadExcept(t))
    /\ WF_vars(\/ DisconnectJoin
               \/ DisconnectClose
               \/ DisconnectNone
               \/ DisconnectClear)

(***************************************************************************)
(* SpecConnect: SpecLife with a port that can fail to open.                *)
(***************************************************************************)
\* A plausible slip: _running = True comes before the port is opened.
RunningSetBeforeOpen(flag) == TRUE

\* _running when serial.Serial(...) has raised: the assignment after it
\* was not reached.
RunningAfterOpenError(flag) == flag

\* connect(): the client is not connected and serial.Serial(...) raises
\* SerialException, which leaves connect() at once; self._serial is not
\* assigned.
ConnectFails ==
    /\ ctl.pc = "idle"
    /\ ~is_connected
    /\ running' = RunningAfterOpenError(running)
    /\ ctl' = [ctl EXCEPT !.last = "connect_error"]
    /\ UNCHANGED <<serial, reader_thread, threads, rx, engineVars,
                   apiVars, codecVars, readerVars>>

NextConnect == LifeSteps \/ ConnectFails \/ DeviceEvent

SpecConnect == Init /\ [][NextConnect]_vars

(***************************************************************************)
(* SpecClose: the same connect(), disconnect() and threads with one caller *)
(* in _send_command and a device that answers its command.  In             *)
(* SpecCloseFair the caller's thread keeps being scheduled.                *)
(***************************************************************************)
SendSteps(c) ==
    \/ NidStore(c)
    \/ NidReturn(c)
    \/ Register(c)
    \/ SendCheck(c)
    \/ LockAcquire(c)
    \/ PortWrite(c)
    \/ PortFlush(c)
    \/ LockRelease(c)
    \/ WaitSignalled(c)
    \/ WaitTimeout(c)
    \/ PopResponse(c)
    \/ Finally(c)

NextClose ==
    \/ LifeSteps
    \/ \E c \in LifeCallers : CallSend(c) \/ SendSteps(c)
    \/ DeviceRespond

SpecClose == Init /\ [][NextClose]_vars

SpecCloseFair ==
    SpecClose /\ \A c \in LifeCallers : WF_vars(SendSteps(c))

(***************************************************************************)
(* SpecDispatch: the reader thread and _handle_event with no send          *)
(* outstanding: the device sends envelopes of every payload kind while     *)
(* handlers are set and unset.                                             *)
(***************************************************************************)
NextDispatch ==
    \/ Connect
    \/ \E kind \in EventKinds, handler \in DispatchHandlers \cup {"None"} :
            SetCallback(kind, handler)
    \/ \E kind \in EventKinds \cup ResponseKinds : EmitEvent(kind, <<0, 0>>)
    \/ ReaderRead
    \/ ReaderNextPacket
    \/ ReaderEvent
    \/ ReaderInvoke

SpecDispatch == Init /\ [][NextDispatch]_vars

(***************************************************************************)
(* SpecHandler: one caller in _send_command and a device that answers and  *)
(* sends events, with handlers that return or raise.                       *)
(***************************************************************************)
NextHandler ==
    \/ Connect
    \/ \E kind \in SentEventKinds, handler \in Handlers \cup {"None"} :
            SetCallback(kind, handler)
    \/ \E c \in LifeCallers :
        \/ CallSend(c)
        \/ NidStore(c)
        \/ NidReturn(c)
        \/ Register(c)
        \/ SendCheck(c)
        \/ WriteFrame(c)
        \/ WaitSignalled(c)
        \/ WaitTimeout(c)
        \/ PopResponse(c)
        \/ Finally(c)
    \/ ReaderRead
    \/ ReaderNextPacket
    \/ ReaderStore
    \/ ReaderSet
    \/ ReaderEvent
    \/ ReaderInvoke
    \/ ReaderInvokeRaises
    \/ DeviceRespond
    \/ DeviceEvent

SpecHandler == Init /\ [][NextHandler]_vars

(***************************************************************************)
(* SpecAlloc: _next_packet_id called while another request is outstanding. *)
(* _packet_id is any value the counter can hold and the outstanding        *)
(* request holds any id the counter has handed out: the counter reaches    *)
(* every pair of the two by further calls, wrapping at its modulus.        *)
(* Frames written by calls that are over are left out of tx.               *)
(***************************************************************************)
AllocStartIds ==
    {<<0, 0>>, <<0, 1>>, <<0, 65535>>, <<65535, 65533>>, <<65535, 65534>>}
AllocPendingIds ==
    {<<0, 0>>, <<0, 1>>, <<0, 2>>, <<1, 0>>, <<65535, 65534>>}

InitAlloc ==
    /\ CodecIdle /\ ReaderIdle
    /\ serial = "open"
    /\ running = TRUE
    /\ packet_id \in AllocStartIds
    /\ \E id \in AllocPendingIds :
        /\ response_events = Put(EmptyMap, id, "c2")
        /\ call = [c \in Callers |->
                    IF c = "c2"
                    THEN [IdleCall EXCEPT !.pc = "wait", !.id = id,
                                          !.wrote = TRUE]
                    ELSE IdleCall]
        /\ tx = <<slip_encode(SerializeToString(id))>>
    /\ pending_responses = EmptyMap
    /\ callbacks = [k \in EventKinds |-> "None"]
    /\ rthread = [pc |-> "read", cur |-> NoEnv, request_id |-> <<0, 0>>]
    /\ rx = <<>>
    /\ nemit = 0
    /\ history = [invoked |-> <<>>, writer |-> <<"c2">>, answered |-> EmptyMap,
                  late |-> {}, fate |-> EmptyMap,
                  registered |-> [k \in EventKinds |-> "None"],
                  raised |-> {}]
    /\ LifeIdle
    /\ ApiIdle

NextAlloc ==
    \E c \in Callers :
        \/ CallSend(c)
        \/ NidStore(c)
        \/ NidReturn(c)
        \/ Register(c)
        \/ SendCheck(c)
        \/ WriteFrame(c)
        \/ WaitTimeout(c)
        \/ Finally(c)

SpecAlloc == InitAlloc /\ [][NextAlloc]_vars

(***************************************************************************)
(* SpecMessage: one public operation of caller c1 (send_message, broadcast *)
(* or one of the query / action wrappers), the _send_command calls it      *)
(* makes one after the other, the reader thread, a device that answers     *)
(* each command it received at most once, and a port that can fail.        *)
(***************************************************************************)
MAX_LENGTH == 180
CHUNK_SIZE == 160
\* self._timeout as the constructor leaves it, and timeouts callers pass.
DEFAULT_TIMEOUT == "5.0"
Timeouts == {"0.5", "30.0"}
Priorities == {"None", "3"}

\* Texts by length: empty, at and next to the 180 limit, two full chunks,
\* two chunks and one character, and 400 characters.  Characters are
\* their codes; this text never has the same character 160 places apart.
TextLens == {0, 1, 180, 181, 320, 321, 400}
Text(n) == [i \in 1..n |-> 97 + (i % 26)]
Texts == {Text(n) : n \in TextLens}

QueryOps == {"get_info", "get_gps", "get_neighbors", "get_routes",
             "get_roster", "get_stats", "set_gps", "set_node_id",
             "send_gps", "send_emergency", "ping", "discover", "join"}

\* Responses the device sends in one run.
MaxReplies == 3

\* text[a:b] for 0 <= a <= b
Slice(text, a, b) ==
    SubSeq(text, a + 1, IF b < Len(text) THEN b ELSE Len(text))

\* range(0, n, step)
RangeFrom0(n, step) == [k \in 1..((n + step - 1) \div step) |-> (k - 1) * step]

\* A plausible slip: the text is cut at the message limit, not the chunk size.
ChunksByMaxLength(text) ==
    LET starts == RangeFrom0(Len(text), MAX_LENGTH)
    IN [k \in 1..Len(starts) |-> Slice(text, starts[k], starts[k] + MAX_LENGTH)]

\* [text[i:i+CHUNK_SIZE] for i in range(0, len(text), CHUNK_SIZE)]
Chunks(text) ==
    LET starts == RangeFrom0(Len(text), CHUNK_SIZE)
    IN [k \in 1..Len(starts) |-> Slice(text, starts[k], starts[k] + CHUNK_SIZE)]

\* str(n) for n >= 0, as character codes.
RECURSIVE Digits(_)
Digits(n) == IF n < 10 THEN <<48 + n>> ELSE Digits(n \div 10) \o <<48 + (n % 10)>>

\* A plausible slip: blanks around the slash of the part indicator.
PartTextSpaced(i, total, chunk) ==
    <<91>> \o Digits(i + 1) \o <<32, 47, 32>> \o Digits(total) \o <<93, 32>>
        \o chunk

\* f"[{i+1}/{total}] {chunk}"
PartText(i, total, chunk) ==
    <<91>> \o Digits(i + 1) \o <<47>> \o Digits(total) \o <<93, 32>> \o chunk

\* A plausible slip: a text of exactly MAX_LENGTH characters is refused.
send_message_below_limit(a) ==
    IF Len(a.text) < MAX_LENGTH
    THEN [a EXCEPT !.pc = "command", !.part = a.text]
    ELSE IF ~a.auto_split
    THEN [a EXCEPT !.pc = "done", !.res = "ValueError"]
    ELSE [a EXCEPT !.pc = "loop", !.chunks = Chunks(a.text), !.i = 0]

\* send_message up to its first call: the one command, the ValueError, or
\* _send_split_message entered and the chunks cut.
send_message(a) ==
    IF Len(a.text) <= MAX_LENGTH
    THEN [a EXCEPT !.pc = "command", !.part = a.text]
    ELSE IF ~a.auto_split
    THEN [a EXCEPT !.pc = "done", !.res = "ValueError"]
    ELSE [a EXCEPT !.pc = "loop", !.chunks = Chunks(a.text), !.i = 0]

\* timeout if timeout is not None else self._timeout
Effective(timeout) == IF timeout # "None" THEN timeout ELSE DEFAULT_TIMEOUT

SendMessageCall(text, priority, timeout, auto_split) ==
    /\ api.pc = "idle"
    /\ api' = send_message([IdleApi EXCEPT !.op = "send_message",
                                           !.given = timeout,
                                           !.text = text,
                                           !.priority = priority,
                                           !.timeout = timeout,
                                           !.auto_split = auto_split])
    /\ UNCHANGED <<serial, running, packet_id, response_events,
                   pending_responses, callbacks, call, rthread, tx, rx, nemit,
                   history, lifeVars, port, codecVars, readerVars>>

\* broadcast(text, timeout): return self.send_message(text, timeout); the
\* second positional parameter of send_message is priority.
BroadcastCall(text, timeout) ==
    /\ api.pc = "idle"
    /\ api' = send_message([IdleApi EXCEPT !.op = "broadcast",
                                           !.given = timeout,
                                           !.text = text,
                                           !.priority = timeout,
                                           !.timeout = "None",
                                           !.auto_split = FALSE])
    /\ UNCHANGED <<serial, running, packet_id, response_events,
                   pending_responses, callbacks, call, rthread, tx, rx, nemit,
                   history, lifeVars, port, codecVars, readerVars>>

\* get_info(timeout) .. join(timeout): the command is built.
QueryCall(op, timeout) ==
    /\ api.pc = "idle"
    /\ api' = [IdleApi EXCEPT !.op = op, !.given = timeout,
                              !.timeout = timeout, !.pc = "command"]
    /\ UNCHANGED <<serial, running, packet_id, response_events,
                   pending_responses, callbacks, call, rthread, tx, rx, nemit,
                   history, lifeVars, port, codecVars, readerVars>>

\* _send_split_message: the for loop takes the next chunk and builds its
\* part text, or is over and "" is returned.
SplitNext ==
    /\ api.pc = "loop"
    /\ api' = IF api.i < Len(api.chunks)
              THEN [api EXCEPT !.pc = "command",
                               !.part = PartText(api.i, Len(api.chunks),
                                                 api.chunks[api.i + 1])]
              ELSE [api EXCEPT !.pc = "done", !.res = "ok"]
    /\ UNCHANGED <<serial, running, packet_id, response_events,
                   pending_responses, callbacks, call, rthread, tx, rx, nemit,
                   history, lifeVars, port, codecVars, readerVars>>

\* self._send_command(cmd, timeout) is called: a new frame of _send_command
\* whose first statement settles the timeout of its wait.
ApiCommand ==
    /\ api.pc = "command"
    /\ api' = [api EXCEPT
                !.pc = "in_command",
                !.cmds = Append(@, [op |-> IF api.op \in QueryOps
                                           THEN api.op ELSE "send_message",
                                    text |-> api.part,
                                    timeout |-> Effective(api.timeout),
                                    before |-> Len(tx),
                                    res |-> "none"])]
    /\ call' = [call EXCEPT !["c1"] = IdleCall]
    /\ UNCHANGED <<serial, running, packet_id, response_events,
                   pending_responses, callbacks, rthread, tx, rx, nemit,
                   history, lifeVars, port, codecVars, readerVars>>

\* A plausible slip: the loop of _send_split_message catches the exception
\* of a part and goes on with the next part.
after_command_keep_going(a, kind) ==
    IF a.chunks = <<>>
    THEN [a EXCEPT !.pc = "done",
                   !.res = IF kind = "response" THEN "ok" ELSE kind]
    ELSE [a EXCEPT !.i = @ + 1,
                   !.pc = IF a.i < Len(a.chunks) - 1 THEN "sleep" ELSE "loop"]

\* The operation after its _send_command call ended with kind: an exception
\* goes on to the caller of the operation; after a return the operation
\* returns, or the loop of _send_split_message goes on (with a sleep
\* between two parts).
after_command(a, kind) ==
    IF kind # "response"
    THEN [a EXCEPT !.pc = "done", !.res = kind]
    ELSE IF a.chunks = <<>>
    THEN [a EXCEPT !.pc = "done", !.res = "ok"]
    ELSE [a EXCEPT !.i = @ + 1,
                   !.pc = IF a.i < Len(a.chunks) - 1 THEN "sleep" ELSE "loop"]

\* _send_command has returned or raised.
ApiReturn ==
    /\ api.pc = "in_command"
    /\ call["c1"].pc = "done"
    /\ api' = after_command([api EXCEPT !.cmds[Len(api.cmds)].res =
                                            call["c1"].res.kind],
                            call["c1"].res.kind)
    /\ UNCHANGED <<serial, running, packet_id, response_events,
                   pending_responses, callbacks, call, rthread, tx, rx, nemit,
                   history, lifeVars, port, codecVars, readerVars>>

\* time.sleep(0.3) between two parts is over.
ApiSleep ==
    /\ api.pc = "sleep"
    /\ api' = [api EXCEPT !.pc = "loop"]
    /\ UNCHANGED <<serial, running, packet_id, response_events,
                   pending_responses, callbacks, call, rthread, tx, rx, nemit,
                   history, lifeVars, port, codecVars, readerVars>>

\* The device answers the oldest command it has not answered.
DeviceAnswer ==
    /\ nemit < MaxReplies
    /\ nemit < Len(tx)
    /\ LET env == [request_id |-> <<slip_decode(tx[nemit + 1]).val[1],
                                    slip_decode(tx[nemit + 1]).val[2]>>,
                   payload |-> "result", seq |-> nemit + 1]
       IN rx' = Append(rx, slip_encode(SerializeFromDevice(env)))
    /\ history' = [history EXCEPT !.answered =
                        Put(@, nemit + 1, history.writer[nemit + 1])]
    /\ nemit' = nemit + 1
    /\ UNCHANGED <<serial, running, packet_id, response_events,
                   pending_responses, callbacks, call, rthread, tx,
                   lifeVars, apiVars, codecVars, readerVars>>

NextMessage ==
    \/ Connect
    \/ \E text \in Texts, priority \in Priorities,
          timeout \in Timeouts \cup {"None"}, auto_split \in BOOLEAN :
            SendMessageCall(text, priority, timeout, auto_split)
    \/ \E text \in Texts, timeout \in Timeouts \cup {"None"} :
            BroadcastCall(text, timeout)
    \/ \E op \in QueryOps, timeout \in Timeouts \cup {"None"} :
            QueryCall(op, timeout)
    \/ SplitNext
    \/ ApiCommand
    \/ (api.pc = "in_command" /\ CallSend("c1"))
    \/ ApiReturn
    \/ ApiSleep
    \/ NidStore("c1")
    \/ NidReturn("c1")
    \/ Register("c1")
    \/ SendCheck("c1")
    \/ LockAcquire("c1")
    \/ PortWrite("c1")
    \/ PortFlush("c1")
    \/ LockRelease("c1")
    \/ WaitSignalled("c1")
    \/ WaitTimeout("c1")
    \/ PopResponse("c1")
    \/ Finally("c1")
    \/ ReaderRead
    \/ ReaderNextPacket
    \/ ReaderStore
    \/ ReaderSet
    \/ ReaderEvent
    \/ DeviceAnswer
    \/ PortFault
    \/ PortRecover

SpecMessage == Init /\ [][NextMessage]_vars

(***************************************************************************)
(* SpecSplit: _send_split_message on texts of up to 16 * 10^9 characters.  *)
(* A text is given by its length, CHUNK_SIZE * q + r with r < CHUNK_SIZE,  *)
(* and the loop is followed at one part at a time.                         *)
(***************************************************************************)
\* len(chunks): range(0, len(text), CHUNK_SIZE) has one start per full
\* chunk and one more when characters are left over.
TotalChunks(q, r) == q + (IF r > 0 THEN 1 ELSE 0)

\* len(text[i:i+CHUNK_SIZE]) at the start of index i (from 0).
ChunkLength(q, r, i) == IF i < q THEN CHUNK_SIZE ELSE r

\* send_message hands over only texts longer than MAX_LENGTH.  The
\* numbers of full chunks are next to the powers of ten.
InitSplit ==
    /\ cin = <<>> /\ cstage = "input" /\ cenc = <<>> /\ cdec = NoDecode
    /\ \E q \in {1, 2, 9, 10, 11, 99, 100, 9999999, 10000000, 99999998,
                 99999999, 100000000},
          r \in {0, 1, 21, 159} :
        /\ q > 1 \/ r > MAX_LENGTH - CHUNK_SIZE
        /\ parts = [pc |-> "split", q |-> q, r |-> r, i |-> 0, text |-> <<>>]
    /\ ReaderIdle
    /\ ClientIdle

\* One pass of the for loop of _send_split_message, at the first or last
\* parts or next to a change in the number of digits.
SplitPart ==
    /\ parts.pc \in {"split", "part"}
    /\ LET total == TotalChunks(parts.q, parts.r) IN
        \E i \in {0, 8, 9, 98, 99, 9999998, 9999999, 99999998, 99999999,
                  total - 2, total - 1} :
            /\ 0 <= i /\ i < total
            /\ parts' = [parts EXCEPT
                            !.pc = "part",
                            !.i = i,
                            !.text = PartText(i, total,
                                       Text(ChunkLength(parts.q, parts.r, i)))]
    /\ UNCHANGED <<cin, cstage, cenc, cdec, readerVars, clientVars>>

NextSplit == SplitPart

SpecSplit == InitSplit /\ [][NextSplit]_vars

(***************************************************************************)
(* SpecMalformed: one caller in _send_command, the reader thread and a     *)
(* device that, beside responses and events, sends well-framed payloads    *)
(* that are no SerialPacket.                                               *)
(***************************************************************************)
\* Payloads ParseFromString raises on: cut short, too long, an unknown
\* payload variant; some begin like a response to the first id handed out,
\* one needs escaping in its frame.
MalformedPayloads ==
    {<<0, 1>>, <<0, 1, 9, 1>>, <<0, 1, 1, 1, 1>>, <<0, 1, 219>>}

EmitMalformed(data) ==
    /\ nemit < MaxEmit
    /\ is_connected
    /\ rx' = Append(rx, slip_encode(data))
    /\ nemit' = nemit + 1
    /\ UNCHANGED <<serial, running, packet_id, response_events,
                   pending_responses, callbacks, call, rthread, tx, history,
                   lifeVars, apiVars, codecVars, readerVars>>

NextMalformed ==
    \/ Connect
    \/ \E kind \in SentEventKinds, handler \in Handlers \cup {"None"} :
            SetCallback(kind, handler)
    \/ CallSend("c1")
    \/ NidStore("c1")
    \/ NidReturn("c1")
    \/ Register("c1")
    \/ SendCheck("c1")
    \/ WriteFrame("c1")
    \/ WaitSignalled("c1")
    \/ WaitTimeout("c1")
    \/ PopResponse("c1")
    \/ Finally("c1")
    \/ ReaderRead
    \/ ReaderNextPacket
    \/ ReaderStore
    \/ ReaderSet
    \/ ReaderEvent
    \/ ReaderInvoke
    \/ DeviceRespond
    \/ DeviceEvent
    \/ \E data \in MalformedPayloads : EmitMalformed(data)

SpecMalformed == Init /\ [][NextMalformed]_vars

(***************************************************************************)
(* SpecFault: one connect(), its _read_loop thread and a disconnect(),     *)
(* with a port whose reads can fail for a while and a device that sends    *)
(* events.                                                                 *)
(***************************************************************************)
NextFault ==
    \/ (ctl.nconn = 0 /\ ConnectCall)
    \/ ConnectClear
    \/ ConnectRun
    \/ ConnectSpawn
    \/ DisconnectCall
    \/ DisconnectJoin
    \/ DisconnectClose
    \/ DisconnectNone
    \/ DisconnectClear
    \/ ThreadTest(1)
    \/ ThreadRead(1)
    \/ ThreadFeed(1)
    \/ ThreadNextPacket(1)
    \/ ThreadHandled(1)
    \/ ThreadExcept(1)
    \/ DeviceEvent
    \/ PortFault
    \/ PortRecover

SpecFault == Init /\ [][NextFault]_vars

(***************************************************************************)
(* SpecCodec                                                               *)
(***************************************************************************)
InitCodec ==
    /\ cin \in ByteSeqs(MaxLen)
    /\ cstage = "input" /\ cenc = <<>> /\ cdec = NoDecode
    /\ parts = NoParts
    /\ ReaderIdle
    /\ ClientIdle

CodecEncode ==
    /\ cstage = "input"
    /\ cenc' = slip_encode(cin)
    /\ cstage' = "encoded"
    /\ UNCHANGED <<cin, cdec, parts, readerVars, clientVars>>

CodecDecodeEncoded ==
    /\ cstage = "encoded"
    /\ cdec' = slip_decode(cenc)
    /\ cstage' = "roundtrip"
    /\ UNCHANGED <<cin, cenc, parts, readerVars, clientVars>>

CodecDecodeRaw ==
    /\ cstage = "input"
    /\ cdec' = slip_decode(cin)
    /\ cstage' = "decoded"
    /\ UNCHANGED <<cin, cenc, parts, readerVars, clientVars>>

NextCodec == CodecEncode \/ CodecDecodeEncoded \/ CodecDecodeRaw

SpecCodec == InitCodec /\ [][NextCodec]_vars

(***************************************************************************)
(* SpecReader                                                              *)
(***************************************************************************)
InitReader == CodecIdle /\ ReaderIdle /\ ClientIdle

ReaderFeed ==
    \E data \in ByteSeqs(MaxChunk) :
        /\ Len(fed) + Len(data) <= MaxStream
        /\ ~rlast.raised
        /\ LET st == feed(rd, data) IN
            /\ rd' = st.r
            /\ rlast' = [op |-> "feed", raised |-> st.raised, had |-> FALSE,
                         ret |-> NoPacket,
                         split |-> rlast.split \/ (data # <<>> /\ rd.buffer # <<>>)]
        /\ fed' = fed \o data
        /\ UNCHANGED <<popped, payloads, codecVars, clientVars>>

ReaderGetPacket ==
    /\ ~rlast.raised
    /\ LET g == get_packet(rd) IN
        /\ rd' = g.r
        /\ rlast' = [op |-> "get", raised |-> FALSE, had |-> has_packet(rd),
                     ret |-> g.ret, split |-> rlast.split]
        /\ popped' = IF g.ret.none THEN popped ELSE Append(popped, g.ret.pkt)
    /\ UNCHANGED <<fed, payloads, codecVars, clientVars>>

ReaderClear ==
    /\ rd' = clear(rd)
    /\ fed' = <<>>
    /\ popped' = <<>>
    /\ rlast' = [op |-> "clear", raised |-> FALSE, had |-> FALSE, ret |-> NoPacket,
                 split |-> FALSE]
    /\ UNCHANGED <<payloads, codecVars, clientVars>>

NextReader == ReaderFeed \/ ReaderGetPacket \/ ReaderClear

SpecReader == InitReader /\ [][NextReader]_vars

(***************************************************************************)
(* SpecStream: a new reader is fed the frames slip_encode makes of a list  *)
(* of non-empty payloads, one after another, in reads of any length, and   *)
(* the packets are taken out as _read_loop does.                           *)
(***************************************************************************)
\* Most payloads of one stream, and the longest of them.
MaxPayloads == 3
MaxPayloadLen == 2

\* The payloads: not empty, of the two bytes slip_encode escapes and one
\* it copies.
Payloads == UNION {[1..k -> {1, SLIP_END, SLIP_ESC}] : k \in 1..MaxPayloadLen}

\* The bytes the port delivers: the frames of the first n payloads.
Frames(n) == Concat([i \in 1..n |-> slip_encode(payloads[i])])

InitStream ==
    /\ CodecIdle
    /\ rd = NewReader /\ fed = <<>> /\ popped = <<>>
    /\ rlast = [op |-> "new", raised |-> FALSE, had |-> FALSE, ret |-> NoPacket,
                split |-> FALSE]
    /\ payloads \in UNION {[1..n -> Payloads] : n \in 1..MaxPayloads}
    /\ ClientIdle

\* _read_loop: data = self._serial.read(256); if data: feed(data).  The
\* read returns the next bytes of the stream, however many.
StreamFeed ==
    \E k \in 1..(Len(Frames(Len(payloads))) - Len(fed)) :
        LET data == SubSeq(Frames(Len(payloads)), Len(fed) + 1, Len(fed) + k)
            st == feed(rd, data)
        IN  /\ rd' = st.r
            /\ rlast' = [op |-> "feed", raised |-> st.raised, had |-> FALSE,
                         ret |-> NoPacket,
                         split |-> rlast.split \/ rd.buffer # <<>>]
            /\ fed' = fed \o data
            /\ UNCHANGED <<popped, payloads, codecVars, clientVars>>

\* _read_loop: while has_packet(): packet_data = get_packet().
StreamGet ==
    /\ has_packet(rd)
    /\ LET g == get_packet(rd) IN
        /\ rd' = g.r
        /\ rlast' = [op |-> "get", raised |-> FALSE, had |-> TRUE,
                     ret |-> g.ret, split |-> rlast.split]
        /\ popped' = Append(popped, g.ret.pkt)
    /\ UNCHANGED <<fed, payloads, codecVars, clientVars>>

NextStream == StreamFeed \/ StreamGet

SpecStream == InitStream /\ [][NextStream]_vars

(***************************************************************************)
(* Properties of the correlation engine                                    *)
(***************************************************************************)
\* C7: a send returns only a response whose request_id equals the id the
\* call allocated, whatever event frames with other request ids arrive
\* around it.
SendReturnsOwnResponse ==
    \A c \in Callers :
        call[c].res.kind = "response" =>
            /\ call[c].res.resp.request_id = call[c].id
            /\ call[c].by.request_id = call[c].id

SendReturnsOwnResponseWitness ==
    \E c \in Callers :
        /\ call[c].pc = "done"
        /\ call[c].res.kind = "response"
        /\ call[c].res.resp.payload = "result"
        /\ call[c].res.resp.request_id = call[c].id
        /\ history.invoked # <<>>
        /\ history.invoked[1].env.request_id # call[c].id
        /\ history.invoked[1].env.seq < call[c].res.resp.seq

\* C8: with several sends outstanding at once, each call's completion
\* signal is fired by an envelope carrying its own id, for every arrival
\* order of the responses.
CompletedByOwnId ==
    \A c \in Callers :
        call[c].flag => call[c].by.request_id = call[c].id

CompletedByOwnIdWitness ==
    /\ call["c1"].pc = "wait" /\ call["c2"].pc = "wait"
    /\ call["c1"].flag /\ call["c2"].flag
    /\ call["c1"].id = Id(1) /\ call["c2"].id = Id(2)
    /\ call["c2"].by.seq < call["c1"].by.seq

\* C9: a send whose command was written and for whose id no envelope
\* arrives before the wait times out ends with TimeoutError, and when it
\* ends no pending request is registered under its id.
TimeoutDeregisters ==
    [][\A c \in Callers :
        (/\ call[c].pc = "finally" /\ call'[c].pc = "done"
         /\ call[c].wrote /\ ~call[c].arrived)
        => (/\ call'[c].res.kind = "TimeoutError"
            /\ call[c].id \notin DOMAIN response_events')]_vars

TimeoutDeregistersWitness ==
    \E c \in Callers :
        /\ call[c].pc = "done"
        /\ call[c].wrote /\ ~call[c].arrived
        /\ call[c].res.kind = "TimeoutError"
        /\ call[c].id \notin DOMAIN response_events
        /\ nemit > 0

\* C11: a send called while the transport is not connected fails with the
\* connection error without writing a byte and without waiting, and when
\* it has failed no pending request is registered under its id.
NotConnectedFailsCleanly ==
    [][\A c \in Callers :
        /\ (/\ call[c].pc = "send_check" /\ call'[c].pc # "send_check"
            /\ serial # "open")
           => (/\ call'[c].pc = "finally"
               /\ call'[c].res.kind = "ConnectionError"
               /\ ~call'[c].wrote
               /\ tx' = tx)
        /\ (/\ call[c].pc = "finally" /\ call'[c].pc = "done"
            /\ call[c].res.kind = "ConnectionError")
           => (/\ ~call'[c].wrote
               /\ tx' = tx
               /\ call[c].id \notin DOMAIN response_events')]_vars

NotConnectedFailsCleanlyWitness ==
    \E c \in Callers :
        /\ call[c].pc = "done"
        /\ call[c].res.kind = "ConnectionError"
        /\ ~call[c].wrote
        /\ serial # "open"
        /\ tx = <<>>
        /\ call[c].id \notin DOMAIN response_events

\* C12: _next_packet_id never returns an id that backs a pending request:
\* when the counter comes round to the id of a request still outstanding,
\* allocation skips to the next id that is not pending.
AllocSkipsPending ==
    [][\A c \in Callers :
        (call[c].pc = "nid_return" /\ call'[c].pc = "register")
        => call'[c].id \notin DOMAIN response_events]_vars

\* C13: two sends that run at once are never given the same id, so at most
\* one pending request exists per packet_id.
OnePendingPerId ==
    \A c, d \in Callers :
        (/\ c # d
         /\ call[c].pc \in BeforeWaitEnds \cup {"pop", "finally"}
         /\ call[d].pc \in BeforeWaitEnds \cup {"pop", "finally"})
        => call[c].id # call[d].id

\* C14: every well-formed inbound envelope the reader thread has dealt with
\* was either handed to _handle_event once, or stored for a pending
\* request and is the result of exactly one send call (returned already,
\* or stored under the id of the one woken call that is about to take it);
\* never both and never neither.
ConsumedExactlyOnce ==
    \A seq \in DOMAIN history.fate :
        LET returned == {c \in Callers : /\ call[c].res.kind = "response"
                                        /\ call[c].res.resp.seq = seq}
            stored == {id \in DOMAIN pending_responses :
                            pending_responses[id].seq = seq}
            awaited == {c \in Callers : /\ call[c].id \in stored
                                       /\ call[c].pc \in {"send_check", "write",
                                                          "wait", "pop"}
                                       /\ call[c].flag}
        IN  rthread.cur.seq # seq =>
                IF history.fate[seq] = "event"
                THEN returned = {} /\ stored = {}
                ELSE Cardinality(returned) + Cardinality(awaited) = 1

\* C15: at most one caller is inside the write / flush section at a time,
\* so the wire carries the frames written so far one after another, whole,
\* followed by the part of its frame the caller inside has written.
WritesExclusive ==
    LET inside == {c \in Callers :
                        call[c].pc \in {"port_write", "port_flush", "unlock"}}
    IN  /\ Cardinality(inside) <= 1
        /\ \A c \in inside : lock = c
        /\ wire = Concat(tx) \o
                  (IF inside = {} THEN <<>>
                   ELSE LET c == CHOOSE c \in inside : TRUE
                        IN SubSeq(Frame(c), 1, call[c].sent))

WritesExclusiveWitness ==
    \E c, d \in Callers :
        /\ c # d
        /\ call[d].pc = "write"
        /\ call[c].pc = "port_write" /\ call[c].sent = 2
        /\ Len(tx) = 0
        /\ lock = c

\* C16: after any sequence of connect and disconnect calls at most one
\* _read_loop thread is reading the port and feeding the Frame Reader.
AtMostOneReader ==
    Cardinality({t \in 1..MaxConnects :
                    threads[t].pc \in {"read", "feed"}}) <= 1

\* C17: when disconnect() returns the client is disconnected (no port
\* handle, _running false) and the Frame Reader holds no byte and no
\* frame; and bytes read before a disconnect are never fed to the Frame
\* Reader after a later connect() has reset it.
StaleFeed ==
    \E t \in 1..MaxConnects :
        /\ threads[t].pc = "feed"
        /\ threads[t].epoch < ctl.nconn
        /\ ctl.pc # "c_clear"

DisconnectLeavesNothing ==
    /\ [][(ctl.pc = "d_clear" /\ ctl'.pc = "idle")
            => (serial' = "None" /\ ~running' /\ rd' = NewReader)]_vars
    /\ [](~StaleFeed)

\* C18: a disconnect() called when the client is already disconnected
\* returns normally and leaves _serial, _running, _reader_thread and the
\* Frame Reader as it found them.
DisconnectIdempotent ==
    [][(/\ ctl.pc = "d_clear" /\ ctl'.pc = "idle"
        /\ ctl.snap.serial = "None"
        /\ ~ctl.snap.running
        /\ ctl.snap.reader_thread = NoThread)
       => (/\ serial' = ctl.snap.serial
           /\ running' = ctl.snap.running
           /\ reader_thread' = ctl.snap.reader_thread
           /\ rd' = ctl.snap.rd)]_vars

\* C19: a send that is waiting when the port is closed does not block
\* for ever: its call returns, with a response or an exception.
OutstandingSendReturns ==
    \A c \in LifeCallers :
        (call[c].pc = "wait" /\ serial # "open")
            ~> (call[c].pc = "done" /\ call[c].res.kind # "none")

OutstandingSendReturnsWitness ==
    \E c \in ctl.cut :
        /\ call[c].pc = "done"
        /\ call[c].res.kind = "TimeoutError"
        /\ serial = "None"

\* C20: an inbound envelope that matches no pending request and carries
\* an event of kind k makes _handle_event call the handler registered for
\* k at that moment, once, with that envelope, and no other handler; with
\* no handler for k nothing is called and nothing is kept: a handler set
\* later is not called for it.
DispatchOnce ==
    /\ [][/\ ((rthread.pc = "event" /\ rthread' # rthread)
               => (/\ history' = history
                   /\ rd' = rd
                   /\ rthread'.pc =
                        (IF /\ rthread.cur.payload \in EventKinds
                            /\ callbacks[rthread.cur.payload] # "None"
                         THEN "invoke" ELSE "loop")))
           /\ ((rthread.pc = "invoke" /\ rthread' # rthread)
               => (/\ rthread'.pc = "loop"
                   /\ history'.invoked =
                        (IF callbacks[rthread.cur.payload] # "None"
                         THEN Append(history.invoked,
                                     [slot |-> rthread.cur.payload,
                                      handler |-> callbacks[rthread.cur.payload],
                                      env |-> rthread.cur])
                         ELSE history.invoked)))
           /\ ((history'.invoked # history.invoked)
               => rthread.pc = "invoke")]_vars
    /\ [](\A i, j \in 1..Len(history.invoked) :
            /\ history.invoked[i].slot = history.invoked[i].env.payload
            /\ history.invoked[i].slot \in EventKinds
            /\ history.invoked[i].handler # "None"
            /\ (history.invoked[i].env.seq = history.invoked[j].env.seq
                    => i = j))

DispatchOnceWitness ==
    /\ rthread.pc = "read"
    /\ nemit = 2
    /\ DOMAIN history.fate = {1, 2}
    /\ Len(history.invoked) = 1
    /\ history.invoked[1].env.seq = 2
    /\ history.invoked[1].slot = "gps_received"
    /\ callbacks["log"] # "None"

\* C21: each event kind has one slot: a handler _handle_event calls for
\* an event of kind k is the one the latest on_<k> call before that moment
\* registered, and while the latest registration for k is None nothing is
\* called for k and the reader thread goes on; an on_<k> call replaces slot
\* k by its argument and leaves the other four slots as they were.
LastRegistrationWins ==
    /\ [][/\ (history'.invoked # history.invoked
                => /\ Len(history'.invoked) = Len(history.invoked) + 1
                   /\ LET r == history'.invoked[Len(history'.invoked)] IN
                        /\ r.handler = history.registered[r.env.payload]
                        /\ r.handler # "None"
                   /\ rthread'.pc = "loop")
           /\ (rthread.pc \in {"event", "invoke"} /\ rthread' # rthread
                /\ rthread.cur.payload \in EventKinds
                /\ history.registered[rthread.cur.payload] = "None"
                => /\ history'.invoked = history.invoked
                   /\ rthread'.pc = "loop")
           /\ \A k \in EventKinds :
                history'.registered[k] # history.registered[k]
                    => /\ callbacks'[k] = history'.registered[k]
                       /\ \A j \in EventKinds \ {k} :
                            /\ callbacks'[j] = callbacks[j]
                            /\ history'.registered[j] = history.registered[j]]_vars
    /\ [](callbacks = history.registered)

LastRegistrationWinsWitness ==
    /\ Len(history.invoked) = 2
    /\ history.invoked[1].slot = "log"
    /\ history.invoked[2].slot = "log"
    /\ history.invoked[1].handler = "h1"
    /\ history.invoked[2].handler = "h2"
    /\ callbacks["log"] = "None"
    /\ callbacks["gps_received"] = "h1"

\* C22: with auto_split off, send_message of a text of at most 180
\* characters (180 included) hands _send_command one command, whose text
\* is the text given, and no more; for a longer text it raises ValueError
\* with no id taken from the counter, no request registered and no byte
\* written.
SingleSendOrValueError ==
    (api.op \in {"send_message", "broadcast"} /\ ~api.auto_split)
        => IF Len(api.text) <= MAX_LENGTH
           THEN /\ api.res # "ValueError"
                /\ Len(api.cmds) <= 1
                /\ (api.pc \in {"in_command", "done"} => Len(api.cmds) = 1)
                /\ \A k \in 1..Len(api.cmds) :
                    /\ api.cmds[k].op = "send_message"
                    /\ api.cmds[k].text = api.text
                /\ Len(tx) <= 1
           ELSE /\ api.pc = "done"
                /\ api.res = "ValueError"
                /\ api.cmds = <<>>
                /\ packet_id \in StartIds
                /\ call["c1"] = IdleCall
                /\ response_events = EmptyMap
                /\ tx = <<>>
                /\ wire = <<>>

SingleSendOrValueErrorWitness ==
    /\ api.op = "send_message"
    /\ ~api.auto_split
    /\ Len(api.text) = MAX_LENGTH
    /\ api.pc = "done"
    /\ api.res = "ok"
    /\ Len(api.cmds) = 1
    /\ api.cmds[1].text = Text(MAX_LENGTH)
    /\ Len(tx) = 1

\* C23: with auto_split on, send_message of a text of more than 180
\* characters hands _send_command at most N = ceil(len / 160) commands, in
\* index order, exactly N when it returns; the i-th carries "[i/N] " and
\* then the characters 160(i-1) .. min(160 i, len) - 1 of the text, so the
\* parts without their prefixes, put end to end, are the text.
PartsOf(n) == CHOOSE N \in 1..(n + 1) : CHUNK_SIZE * (N - 1) < n /\ n <= CHUNK_SIZE * N

RECURSIVE Bodies(_, _)
Bodies(cmds, k) ==
    IF k = 0 THEN <<>>
    ELSE Bodies(cmds, k - 1) \o SubSeq(cmds[k].text, 7, Len(cmds[k].text))

ChunkedSend ==
    (api.op = "send_message" /\ api.auto_split /\ Len(api.text) > MAX_LENGTH)
        => LET n == Len(api.text)
               N == PartsOf(n)
           IN /\ Len(api.cmds) <= N
              /\ api.res # "ValueError"
              /\ \A k \in 1..Len(api.cmds) :
                    LET from == CHUNK_SIZE * (k - 1)
                        to == IF CHUNK_SIZE * k < n THEN CHUNK_SIZE * k ELSE n
                    IN /\ api.cmds[k].op = "send_message"
                       /\ api.cmds[k].text =
                            <<91, 48 + k, 47, 48 + N, 93, 32>>
                            \o [j \in 1..(to - from) |-> api.text[from + j]]
              /\ (api.res = "ok"
                    => /\ Len(api.cmds) = N
                       /\ Bodies(api.cmds, N) = api.text)

ChunkedSendWitness ==
    /\ api.op = "send_message"
    /\ api.auto_split
    /\ Len(api.text) = 400
    /\ api.pc = "done"
    /\ api.res = "ok"
    /\ Len(api.cmds) = 3
    /\ Len(api.cmds[1].text) = 166
    /\ Len(api.cmds[2].text) = 166
    /\ Len(api.cmds[3].text) = 86
    /\ Len(tx) = 3

\* C24: in a chunked send the command of part i+1 is issued, and so its
\* frame written, only after the _send_command call of part i has returned
\* a response; when the call of part i raises (TimeoutError,
\* ConnectionError, an error of the port) send_message ends with that
\* exception, and no frame is written from then on.
AbortOnFirstFailure ==
    /\ [][(api.pc = "done" /\ api.op = "send_message")
            => (tx' = tx /\ wire' = wire /\ api' = api)]_vars
    /\ []((api.op = "send_message" /\ api.chunks # <<>>)
            => /\ \A k \in 1..Len(api.cmds) :
                    /\ (k > 1 => api.cmds[k - 1].res = "response")
                    /\ api.cmds[k].before = k - 1
               /\ Len(tx) <= Len(api.cmds)
               /\ (api.pc = "done"
                    => /\ api.cmds # <<>>
                       /\ api.cmds[Len(api.cmds)].res
                            = (IF api.res = "ok" THEN "response" ELSE api.res)
                       /\ (api.res = "ok" => Len(api.cmds) = Len(api.chunks))))

AbortOnFirstFailureWitness ==
    /\ api.op = "send_message"
    /\ Len(api.chunks) = 3
    /\ api.pc = "done"
    /\ api.res = "SerialException"
    /\ Len(api.cmds) = 2
    /\ api.cmds[1].res = "response"
    /\ Len(tx) = 1
    /\ port = "ok"
    /\ lock = "free"

\* C25: every _send_command call a public operation makes waits with
\* the timeout the caller of the operation gave, broadcast included, and
\* with the client's default timeout only when the caller gave none.
PerCallTimeoutUsed ==
    \A k \in 1..Len(api.cmds) :
        api.cmds[k].timeout =
            (IF api.given # "None" THEN api.given ELSE DEFAULT_TIMEOUT)

\* C26: when the packet taken from the reader is a well-framed payload
\* that is no SerialPacket, handling it changes nothing but the reader: no
\* request is completed, no handler called, no call of a caller ends or
\* fails, _response_events, _pending_responses and the callback slots stay
\* as they are, and the thread goes on with the next packet.
MalformedDropped ==
    [][(/\ rthread.pc = "loop"
        /\ has_packet(rd)
        /\ get_packet(rd).ret.pkt \in MalformedPayloads
        /\ rthread' # rthread \/ rd' # rd)
        => (/\ rd' = get_packet(rd).r
            /\ rthread'.pc = "loop"
            /\ rthread'.cur = NoEnv
            /\ response_events' = response_events
            /\ pending_responses' = pending_responses
            /\ callbacks' = callbacks
            /\ call' = call
            /\ history' = history)]_vars

MalformedDroppedWitness ==
    /\ nemit = 2
    /\ rx = <<>>
    /\ ~has_packet(rd)
    /\ 1 \notin DOMAIN history.fate
    /\ 1 \notin DOMAIN history.answered
    /\ call["c1"].pc = "done"
    /\ call["c1"].res.kind = "response"
    /\ call["c1"].res.resp.seq = 2

\* C27: a caller registers, pops and deregisters its request only while
\* it holds _lock, and _response_events, _pending_responses and the
\* callback slots change only while some thread holds _lock.
AccessesUnderLock ==
    [][/\ \A c \in Callers :
            (call[c].pc \in {"register", "pop", "finally"} /\ call'[c] # call[c])
                => lock = c
       /\ (\/ response_events' # response_events
           \/ pending_responses' # pending_responses
           \/ callbacks' # callbacks)
            => lock # "free"]_vars

\* C28: a read of the port that raises does not end a _read_loop thread:
\* the thread goes to its except clause and from there to the while test,
\* and it leaves the loop only at a test that finds the client not
\* connected (_running false or no port).
ReadFailureRetried ==
    [][\A t \in 1..MaxConnects :
        /\ (threads[t].pc = "read" /\ threads'[t] # threads[t]
                /\ ~(serial = "open" /\ port = "ok"))
            => threads'[t].pc = "except"
        /\ (threads[t].pc = "except" /\ threads'[t] # threads[t])
            => threads'[t].pc = "test"
        /\ (threads[t].pc = "test" /\ threads'[t] # threads[t]
                /\ running /\ serial # "None")
            => threads'[t].pc = "read"
        /\ (threads'[t].pc = "exited" /\ threads[t].pc # "exited")
            => (threads[t].pc = "test" /\ ~(running /\ serial # "None"))]_vars

\* A thread whose read failed on the open port, with no disconnect since,
\* has entered _handle_packet with an envelope sent after that failure.
ReadFailureRetriedWitness ==
    /\ ctl.nconn = 1
    /\ ctl.last = "connect"
    /\ ctl.pc = "idle"
    /\ port = "ok"
    /\ threads[1].fault > 0
    /\ threads[1].pc = "busy"
    /\ ParseFromString(threads[1].data).ok
    /\ ParseFromString(threads[1].data).env.seq >= threads[1].fault

\* C29: when write() or flush() of a send raises on the open port, that
\* send ends with the exception raised, with no request of its own left in
\* _response_events and with _lock released: the lock is held only by a
\* caller inside the with block.
WriteFailureSurfaced ==
    /\ [][\A c \in Callers :
            /\ (call[c].pc \in {"port_write", "port_flush"}
                    /\ serial = "open" /\ port = "failing"
                    /\ call'[c] # call[c])
                => (/\ call'[c].pc = "unlock_err"
                    /\ call'[c].res.kind = "SerialException")
            /\ (call[c].pc = "unlock_err" /\ call'[c] # call[c])
                => (/\ lock' = "free"
                    /\ call'[c].pc = "finally"
                    /\ call'[c].res = call[c].res)
            /\ (call[c].pc = "finally" /\ call'[c] # call[c])
                => (/\ call'[c].pc = "done"
                    /\ call'[c].res = call[c].res
                    /\ call[c].id \notin DOMAIN response_events')]_vars
    /\ [](\A c \in Callers :
            /\ (lock = c => call[c].pc \in {"port_write", "port_flush",
                                            "unlock", "unlock_err"})
            /\ (call[c].pc = "done"
                    => \A k \in DOMAIN response_events : response_events[k] # c))

\* One send has failed inside the with block and the other caller has
\* since taken the lock and written its whole frame.
WriteFailureSurfacedWitness ==
    /\ call["c1"].pc = "done"
    /\ call["c1"].res.kind = "SerialException"
    /\ lock = "c2"
    /\ call["c2"].pc = "port_flush"
    /\ call["c2"].sent = Len(Frame("c2"))

\* C30: _next_packet_id counts modulo 2^32: the id it computes is the
\* value of _packet_id plus one, and 0 after 2^32 - 1, so that every value
\* of 0 .. 2^32 - 1 is handed out once before one comes again.
Inc32(p) ==
    IF p[2] + 1 < Word THEN <<p[1], p[2] + 1>>
    ELSE IF p[1] + 1 < Word THEN <<p[1] + 1, 0>>
    ELSE <<0, 0>>

CounterWrapsAt32Bits ==
    [][\A c \in Callers :
        (call[c].pc = "idle" /\ call'[c].pc = "nid_store")
            => call'[c].tmp = Inc32(packet_id)]_vars

\* C10: a response that arrives for an id after the send for that id has
\* timed out is discarded: it leaves the timed-out call's outcome alone,
\* invokes no event handler and is returned to no send call.
LateResponseDiscarded ==
    /\ \A c \in Callers :
        call[c].res.kind = "TimeoutError" => call[c].res.resp = NoEnv
    /\ \A i \in 1..Len(history.invoked) :
        history.invoked[i].env.seq \notin history.late
    /\ \A c \in Callers :
        call[c].res.kind = "response" => call[c].res.resp.seq \notin history.late

(***************************************************************************)
(* Properties of the codec                                                 *)
(***************************************************************************)
Range(s) == {s[i] : i \in 1..Len(s)}

\* C1: for every byte string x, slip_decode(slip_encode(x)) succeeds and
\* returns exactly x.
RoundTrip ==
    cstage = "roundtrip" => (cdec.ok /\ cdec.val = cin)

RoundTripWitness ==
    /\ cstage = "roundtrip"
    /\ SLIP_END \in Range(cin) /\ SLIP_ESC \in Range(cin)
    /\ cdec.ok /\ cdec.val = cin

\* Number of bytes among the first n of data that slip_encode escapes.
EscCount(data, n) ==
    Cardinality({j \in 1..n : data[j] \in {SLIP_END, SLIP_ESC}})

\* Where the encoding of payload byte i starts in slip_encode(data).
EncPos(data, i) == 1 + i + EscCount(data, i - 1)

\* C2: slip_encode(payload) is one 0xC0, then per payload byte in order
\* 0xDB 0xDC for 0xC0, 0xDB 0xDD for 0xDB, else the byte itself, then one
\* trailing 0xC0; encode([0xC0,0xDB]) = [0xC0,0xDB,0xDC,0xDB,0xDD,0xC0] and
\* decoding that sequence gives [0xC0,0xDB].
EncodeLayout ==
    /\ cstage \in {"encoded", "roundtrip"} =>
        /\ Len(cenc) = Len(cin) + EscCount(cin, Len(cin)) + 2
        /\ cenc[1] = SLIP_END
        /\ cenc[Len(cenc)] = SLIP_END
        /\ \A i \in 1..Len(cin) :
            LET p == EncPos(cin, i) IN
            IF cin[i] = SLIP_END
            THEN cenc[p] = SLIP_ESC /\ cenc[p + 1] = SLIP_ESC_END
            ELSE IF cin[i] = SLIP_ESC
            THEN cenc[p] = SLIP_ESC /\ cenc[p + 1] = SLIP_ESC_ESC
            ELSE cenc[p] = cin[i]
        /\ cin = <<192, 219>> => cenc = <<192, 219, 220, 219, 221, 192>>
    /\ (cstage = "roundtrip" /\ cenc = <<192, 219, 220, 219, 221, 192>>) =>
        (cdec.ok /\ cdec.val = <<192, 219>>)

EncodeLayoutWitness ==
    /\ cstage = "roundtrip"
    /\ cin = <<192, 219>>
    /\ cenc = <<192, 219, 220, 219, 221, 192>>
    /\ cdec.val = <<192, 219>>

\* An escape byte that is the last byte, or that is followed by a byte
\* other than the two escaped-literal codes.
BadEscape(data) ==
    \E i \in 1..Len(data) :
        /\ data[i] = SLIP_ESC
        /\ (i = Len(data) \/ data[i + 1] \notin {SLIP_ESC_END, SLIP_ESC_ESC})

\* What position i of a string without bad escape contributes to the
\* decoded string.
Contribution(data, i) ==
    IF data[i] = SLIP_END THEN <<>>
    ELSE IF data[i] = SLIP_ESC
    THEN (IF data[i + 1] = SLIP_ESC_END THEN <<SLIP_END>> ELSE <<SLIP_ESC>>)
    ELSE IF i > 1 /\ data[i - 1] = SLIP_ESC THEN <<>>
    ELSE <<data[i]>>

Unescaped(data) ==
    LET U[k \in 0..Len(data)] ==
            IF k = 0 THEN <<>> ELSE U[k - 1] \o Contribution(data, k)
    IN U[Len(data)]

\* C3: slip_decode fails exactly when the input holds a 0xDB that is the
\* last byte or is followed by a byte other than 0xDC / 0xDD; otherwise it
\* succeeds, dropping every 0xC0 and replacing 0xDB 0xDC by 0xC0 and
\* 0xDB 0xDD by 0xDB.
DecodeFailsExactlyOnBadEscape ==
    cstage = "decoded" =>
        /\ cdec.ok <=> ~BadEscape(cin)
        /\ cdec.ok => cdec.val = Unescaped(cin)

DecodeFailsWitness ==
    /\ cstage = "decoded"
    /\ cin = <<SLIP_END, SLIP_ESC, 1, SLIP_END>>
    /\ ~cdec.ok

(***************************************************************************)
(* Properties of the reader                                                *)
(***************************************************************************)
\* Every packet extracted since construction / clear(), in extraction order.
AllFrames == popped \o rd.packets

RECURSIVE FeedSingly(_, _, _)
\* The reader after feeding data[i..] one byte per feed() call.
FeedSingly(r, data, i) ==
    IF i > Len(data) THEN r
    ELSE FeedSingly(feed(r, <<data[i]>>).r, data, i + 1)

\* C4: however the byte stream is cut into chunks, the reader extracts the
\* same frames and ends in the same internal state as when the stream is
\* fed as one block, or one byte at a time.
ChunkingEquivalence ==
    LET block == feed(NewReader, fed).r
        single == FeedSingly(NewReader, fed, 1)
    IN  /\ AllFrames = block.packets
        /\ rd.buffer = block.buffer
        /\ rd.in_packet = block.in_packet
        /\ AllFrames = single.packets
        /\ rd.buffer = single.buffer
        /\ rd.in_packet = single.in_packet

ChunkingEquivalenceWitness ==
    /\ rlast.split
    /\ fed = <<SLIP_END, 1, SLIP_ESC, SLIP_ESC_END, SLIP_END, SLIP_ESC_ESC>>
    /\ AllFrames = << <<1, SLIP_END>> >>
    /\ rd.buffer = <<SLIP_ESC_ESC>>

\* The frames a byte stream carries, in the order of their closing
\* delimiters: the bytes between two consecutive delimiters, unescaped,
\* when they are not empty and hold no bad escape.
ExpectedFrames(data) ==
    LET Ends == {i \in 1..Len(data) : data[i] = SLIP_END}
        Opener(k) == IF \E i \in Ends : i < k
                     THEN CHOOSE i \in Ends : i < k /\ \A j \in Ends : j < k => j <= i
                     ELSE 0
        Segment(k) == SubSeq(data, Opener(k) + 1, k - 1)
        F[k \in 0..Len(data)] ==
            IF k = 0 THEN <<>>
            ELSE IF /\ data[k] = SLIP_END
                    /\ Opener(k) > 0
                    /\ Segment(k) # <<>>
                    /\ ~BadEscape(Segment(k))
                 THEN Append(F[k - 1], Unescaped(Segment(k)))
                 ELSE F[k - 1]
    IN F[Len(data)]

\* C5: bytes between two delimiters that hold a corrupt escape enqueue no
\* frame and raise no error, and the well-formed frames around them are
\* extracted intact.
CorruptEscapeDropped ==
    /\ ~rlast.raised
    /\ AllFrames = ExpectedFrames(fed)

CorruptEscapeDroppedWitness ==
    /\ fed = <<SLIP_END, SLIP_ESC, 1, SLIP_END, 1, SLIP_END>>
    /\ rlast.op = "feed"
    /\ AllFrames = << <<1>> >>

\* C6: get_packet returns the extracted frames in the order of their
\* closing delimiters, each once, and returns None exactly when
\* has_packet() is false.
GetPacketFifo ==
    /\ Len(popped) <= Len(ExpectedFrames(fed))
    /\ popped = SubSeq(ExpectedFrames(fed), 1, Len(popped))
    /\ rd.packets = SubSeq(ExpectedFrames(fed), Len(popped) + 1,
                           Len(ExpectedFrames(fed)))
    /\ rlast.op = "get" =>
        /\ rlast.ret.none <=> ~rlast.had
        /\ ~rlast.ret.none =>
            /\ popped # <<>>
            /\ rlast.ret.pkt = ExpectedFrames(fed)[Len(popped)]

GetPacketFifoWitness ==
    /\ popped = << <<1>>, <<SLIP_ESC_END>> >>
    /\ rlast.op = "get"
    /\ rlast.ret.none

\* C31: on a new or cleared reader the bytes fed before the first 0xC0 are
\* dropped: as long as no 0xC0 was fed nothing is buffered or extracted,
\* and afterwards the frames are those of the stream from its first 0xC0
\* on, so the first frame holds only bytes that follow that delimiter.
DiscardBeforeFirstDelimiter ==
    LET Ends == {i \in 1..Len(fed) : fed[i] = SLIP_END} IN
    IF Ends = {}
    THEN /\ AllFrames = <<>>
         /\ rd.buffer = <<>>
         /\ ~rd.in_packet
    ELSE LET first == CHOOSE i \in Ends : \A j \in Ends : i <= j
             last == CHOOSE i \in Ends : \A j \in Ends : j <= i
         IN /\ AllFrames = ExpectedFrames(SubSeq(fed, first, Len(fed)))
            /\ rd.buffer = SubSeq(fed, last + 1, Len(fed))
            /\ rd.in_packet

DiscardBeforeFirstDelimiterWitness ==
    /\ fed = <<1, SLIP_ESC_END, SLIP_END, SLIP_ESC_ESC, SLIP_END>>
    /\ AllFrames = << <<SLIP_ESC_ESC>> >>
    /\ rd.buffer = <<>>

\* C32: once disconnect() has set _running to False, every _read_loop
\* thread alive at that moment leaves its loop and ends, and disconnect()
\* itself returns, whether or not the thread has ended by then.
StopSignalEndsReader ==
    /\ \A t \in 1..MaxConnects :
        (ctl.pc = "d_join" /\ threads[t].pc \notin {"unborn", "exited"})
            ~> (threads[t].pc = "exited")
    /\ (ctl.pc = "d_join") ~> (ctl.pc = "idle")

\* C33: however a write is interleaved with disconnect(), it ends in one of
\* two ways, the whole frame written to the open port or ConnectionError:
\* write() and flush() are never called on a port that disconnect() has
\* closed or on None.
WriteOrNotConnected ==
    /\ [][\A c \in LifeCallers :
            (call[c].pc \in {"port_write", "port_flush"} /\ call'[c] # call[c])
                => serial = "open"]_vars
    /\ [](\A c \in LifeCallers :
            (call[c].pc \in {"unlock_err", "finally", "done"} /\ ~call[c].wrote)
                => call[c].res.kind = "ConnectionError")

\* C34: whenever no caller is inside _send_command, _response_events and
\* _pending_responses are both empty, whatever sends came before and however
\* their responses were timed.
TablesEmptyWhenIdle ==
    (\A c \in Callers : call[c].pc \in {"idle", "done"})
        => /\ response_events = EmptyMap
           /\ pending_responses = EmptyMap

\* C35: an exception raised by a handler stays on the reader thread: the
\* thread goes on with its loop, no send call gets the exception or is
\* touched by it, the tables and the bytes still to be read stay as they
\* were, and the frames that follow are decoded, correlated and dispatched
\* as after a handler that returned.
HandlerExceptionAbsorbed ==
    /\ [][(rthread.pc = "invoke" /\ rthread' # rthread)
            => /\ rthread' = [pc |-> "loop", cur |-> NoEnv,
                              request_id |-> <<0, 0>>]
               /\ UNCHANGED <<call, rd, rx, running, serial, response_events,
                              pending_responses, callbacks>>]_vars
    /\ [](\A c \in LifeCallers :
            call[c].res.kind \in {"none", "response", "TimeoutError",
                                  "ConnectionError"})
    /\ [](rthread.pc \in {"stopped", "read", "loop", "store", "set", "event",
                          "invoke"})

\* The handler of the first event raised; the response that followed it was
\* correlated and returned to the caller.
HandlerExceptionAbsorbedWitness ==
    /\ history.raised = {1}
    /\ call["c1"].pc = "done"
    /\ call["c1"].res.kind = "response"
    /\ call["c1"].res.resp.seq = 2

\* C36: frames are handled one at a time in the order they arrived: while
\* _handle_packet (and the handler it calls) is running for one frame no
\* other frame is being correlated or dispatched, so a frame is taken up
\* only when the handling of every frame before it has returned.
BeingHandled == {t \in 1..MaxConnects : threads[t].pc = "busy"}

EventsOneAtATime ==
    /\ [](Cardinality(BeingHandled) <= 1)
    /\ [][\A t \in 1..MaxConnects :
            (threads[t].pc = "loop" /\ threads'[t].pc = "busy")
                => BeingHandled = {}]_vars

\* C37: the reader never enqueues an empty packet, and a new reader fed
\* the frames of non-empty payloads x1 .. xn one after another, in pieces of
\* any length, extracts x1 .. xn: every payload whose closing delimiter was
\* fed, in order, and nothing else.  slip_encode puts 0xC0 first and last in
\* a frame and nowhere else.
Closed == {i \in 1..Len(payloads) : Len(Frames(i)) <= Len(fed)}

StreamYieldsPayloads ==
    /\ \A i \in 1..Len(AllFrames) : AllFrames[i] # <<>>
    /\ AllFrames = SubSeq(payloads, 1, Cardinality(Closed))
    /\ fed = Frames(Len(payloads)) => AllFrames = payloads
    /\ \A i \in 1..Len(payloads) :
        LET framed == slip_encode(payloads[i]) IN
        {j \in 1..Len(framed) : framed[j] = SLIP_END} = {1, Len(framed)}

\* Three payloads with both escapes, fed in pieces that cut a frame, all
\* taken out.
StreamYieldsPayloadsWitness ==
    /\ payloads = << <<SLIP_END>>, <<SLIP_ESC, 1>>, <<1, SLIP_END>> >>
    /\ fed = Frames(Len(payloads))
    /\ rlast.split
    /\ popped = payloads

\* C38: every part text of _send_split_message, "[i/N] " included, has at
\* most MAX_LENGTH characters as long as the number of parts N has at most
\* 8 digits; every chunk has 1 to CHUNK_SIZE characters and only the last
\* one can have fewer than CHUNK_SIZE.
LabelLength(i, total) == Len(PartText(i, total, <<>>))

PartWithinLimit ==
    LET total == TotalChunks(parts.q, parts.r)
        body == Len(parts.text) - LabelLength(parts.i, total)
    IN  /\ parts.pc = "part" =>
            /\ total < 100000000 => Len(parts.text) <= MAX_LENGTH
            /\ body >= 1 /\ body <= CHUNK_SIZE
            /\ body < CHUNK_SIZE => parts.i = total - 1
            /\ SubSeq(parts.text, LabelLength(parts.i, total) + 1,
                      Len(parts.text)) = Text(body)
        \* on a text short enough to write out, Chunks cuts it so
        /\ parts.q <= 2 =>
            LET chunks == Chunks(Text(CHUNK_SIZE * parts.q + parts.r)) IN
            /\ Len(chunks) = total
            /\ \A k \in 1..total :
                Len(chunks[k]) = ChunkLength(parts.q, parts.r, k - 1)

\* The last part of 99,999,999: a label of 20 characters and a full chunk.
PartWithinLimitWitness ==
    /\ parts.pc = "part"
    /\ parts.q = 99999999 /\ parts.r = 0
    /\ parts.i = 99999998
    /\ Len(parts.text) = MAX_LENGTH

\* C39: connect() on a connected client does nothing: the port is not
\* opened again, the reader is not cleared and no thread is started; and a
\* connect() whose serial.Serial(...) raises ends with that exception, the
\* client not connected, _running as it was and no thread started.
ConnectCalled ==
    /\ ctl.pc = "idle"
    /\ ctl' # ctl
    /\ ctl'.last \in {"connect", "connect_noop", "connect_error"}

ConnectNoOpOrClean ==
    [][ConnectCalled =>
        IF is_connected
        THEN /\ ctl' = [ctl EXCEPT !.last = "connect_noop"]
             /\ UNCHANGED <<serial, rd, running, reader_thread, threads>>
        ELSE ctl'.last = "connect_error" =>
                /\ ctl' = [ctl EXCEPT !.last = "connect_error"]
                /\ serial' # "open"
                /\ UNCHANGED <<serial, rd, running, reader_thread, threads>>]_vars

\* A connect() that failed after a connect() and a disconnect().
ConnectNoOpOrCleanWitness ==
    /\ ctl.last = "connect_error"
    /\ ctl.nconn = 1
    /\ serial = "None"
    /\ ~running
    /\ reader_thread = NoThread
    /\ threads[2].pc = "unborn"

====
